---- MODULE Spec2Model ----
(***************************************************************************)
(* Range operations of polars-bio: the overlap, count-overlaps and nearest *)
(* queries over two interval tables, and the dispatcher that configures    *)
(* the session and issues them; the base-quality statistics (histogram     *)
(* provider, quartile accumulators) and the streaming write path.          *)
(***************************************************************************)
EXTENDS Integers, Sequences, FiniteSets, TLC

VARIABLES
    \* ---- query level: two registered interval tables and one result ----
    left_rows,      \* rows of the table registered as the left input (s1)
    right_rows,     \* rows of the table registered as the right input (s2)
    left_schema,    \* names of the (contig, start, end) columns of s1
    right_schema,   \* names of the (contig, start, end) columns of s2
    filter_op,      \* RangeOptions.filter_op
    ran,            \* which query produced `out` ("none" before any ran)
    out,            \* rows of the result
    \* ---- dispatch level: one session shared by the dispatching threads ----
    interval_join_algorithm,  \* SequilaConfig.interval_join_algorithm of the session
    catalog,        \* table name -> the provider registered under it
    pc,             \* per thread: its position inside do_range_operation
    req,            \* per thread: the dispatch in flight
    finished,       \* per thread: how its latest finished dispatch ended
    ndispatch,      \* dispatches started so far; a dispatch is named by its number
    last_writer,    \* the dispatch that last wrote interval_join_algorithm
    registered,     \* history: which dispatch registered a provider under which name
    evicted,        \* history: providers deregistered by a dispatch other than their own
    \* ---- base-quality statistics ----
    hist_exec,      \* one partition of SequenceQualityHistogramExec: input, pos_map, output
    quart,          \* one per-position histogram and the statistics computed from it
    warn,           \* the scan of the positions that sets base_quality_warn
    macc,           \* accumulators of one aggregate: partial states and their merge
    dec,            \* a quality column being decoded by an accumulator or by do_compute
    \* ---- write path ----
    wstream,        \* consume_write_stream: the stream of WriteExec and total_rows
    vcf,            \* apply_vcf_metadata_to_schema: its arguments and its result
    bam,            \* BAM/CRAM write: the schema and the schema with tag metadata
    \* ---- streams ----
    pipe,           \* a stream operator over an upstream stream: items in, items out
    pystream,       \* a Python iterator and the PythonBatchStreams that pull from it
    parsed,         \* parse_format_column_name: a column name and the result
    lazy,           \* the tables s1, s2 of a session and its lazy count-overlaps results
    hstage          \* histogram partitions feeding the statistics stage

qvars == <<left_rows, right_rows, left_schema, right_schema, filter_op, ran, out>>

dvars == <<interval_join_algorithm, catalog, pc, req, finished, ndispatch, last_writer,
           registered, evicted>>

svars == <<hist_exec, quart, warn, macc, dec>>

wvars == <<wstream, vcf, bam>>

pvars == <<pipe, pystream, parsed, lazy, hstage>>

vars == <<qvars, dvars, svars, pvars, wvars, pvars>>

\* ------------------------------------------------------------------ bounds
MaxCoord == 1
MaxLeft == 1
MaxRight == 2
MaxDispatch == 2
MaxQual == 1        \* longest quality string
MaxReads == 2       \* most rows of quality strings fed to one aggregation
MaxCount == 2       \* largest count in one slot of an input histogram
MaxPos == 2         \* most read positions in one evaluation
MaxBatches == 2     \* most batches of one write stream
MaxFields == 2      \* most columns of a schema handed to the writer
MaxSample == 2      \* most characters of a sample name
MaxPartitions == 2  \* largest target_partitions of the histogram provider
MaxItems == 2       \* most items a Python iterator produces before StopIteration

\* --------------------------------------------------------------- constants
None == "None"
DEFAULT_COLUMN_NAMES == <<"contig", "start", "end">>
CustomColumns1 == <<"chrom", "pos_start", "pos_end">>
CustomColumns2 == <<"seqid", "first", "last">>
FilterOps == {"Weak", "Strict"}

\* ------------------------------------------------------------------ inputs
Coords == 0..MaxCoord
Intervals == {iv \in Coords \X Coords : iv[1] <= iv[2]}
\* interval records as (contig, start, end); chr2 carries one interval that
\* spans every coordinate, so only the contig test can keep it out of a join
RowVals == {<<"chr1", iv[1], iv[2]>> : iv \in Intervals} \cup {<<"chr2", 0, MaxCoord>>}

MkRow(schema, v) == (schema[1] :> v[1]) @@ (schema[2] :> v[2]) @@ (schema[3] :> v[3])

Tables(schema, maxlen) ==
    UNION {[1..n -> {MkRow(schema, v) : v \in RowVals}] : n \in 0..maxlen}

\* the interval record seen through the three coordinate columns
Triple(row, schema) == <<row[schema[1]], row[schema[2]], row[schema[3]]>>

\* ---------------------------------------------------------------- helpers
RECURSIVE SumSeq(_)
SumSeq(s) == IF s = <<>> THEN 0 ELSE Head(s) + SumSeq(Tail(s))

Occ(s, x) == Cardinality({k \in DOMAIN s : s[k] = x})

Abs(x) == IF x < 0 THEN 0 - x ELSE x

\* cast(x AS INT): a 32-bit signed value, an error outside its range
CastInt(x) == IF x >= (0 - 2147483647) - 1 /\ x <= 2147483647 THEN x ELSE "cast_error"

\* a column reference resolves only if the table has a column of that name
HasCols(schema, names) == \A i \in DOMAIN names : \E j \in DOMAIN schema : schema[j] = names[i]

\* ------------------------------------------------------- overlap (SQL path)
\* operation.rs prepare_query: sign and column names from the options
prepare_query(opt_filter, opt_columns_1, opt_columns_2, left_table, right_table) ==
    [sign |-> IF opt_filter = "Weak" THEN "=" ELSE "",
     columns_1 |-> IF opt_columns_1 # None THEN opt_columns_1 ELSE DEFAULT_COLUMN_NAMES,
     columns_2 |-> IF opt_columns_2 # None THEN opt_columns_2 ELSE DEFAULT_COLUMN_NAMES,
     left_table |-> left_table,
     right_table |-> right_table]

\* `x >{sign} y` and `x <{sign} y` of the generated SQL text
Gt(sign, x, y) == IF sign = "=" THEN x >= y ELSE x > y
Lt(sign, x, y) == IF sign = "=" THEN x <= y ELSE x < y

\* a slip in the generated text: the second comparison loses its `=` sign
overlap_where_strict_end(qp, a, b) ==
    /\ a[qp.columns_1[1]] = b[qp.columns_2[1]]
    /\ Gt(qp.sign, CastInt(a[qp.columns_1[3]]), CastInt(b[qp.columns_2[2]]))
    /\ Lt("", CastInt(a[qp.columns_1[2]]), CastInt(b[qp.columns_2[3]]))

\* query.rs overlap_query: FROM right AS b, left AS a WHERE ...
overlap_where(qp, a, b) ==
    /\ a[qp.columns_1[1]] = b[qp.columns_2[1]]
    /\ Gt(qp.sign, CastInt(a[qp.columns_1[3]]), CastInt(b[qp.columns_2[2]]))
    /\ Lt(qp.sign, CastInt(a[qp.columns_1[2]]), CastInt(b[qp.columns_2[3]]))

overlap_select(qp, a, b) ==
    [left |-> <<a[qp.columns_1[1]], a[qp.columns_1[2]], a[qp.columns_1[3]]>>,
     right |-> <<b[qp.columns_2[1]], b[qp.columns_2[2]], b[qp.columns_2[3]]>>]

\* the cross product `b, a` in row order, one entry per pair of input rows
CrossPairs(as, bs) ==
    [k \in 1..(Len(as) * Len(bs)) |->
        <<((k - 1) % Len(as)) + 1, ((k - 1) \div Len(as)) + 1>>]

overlap_query(qp, as, bs) ==
    LET pairs == CrossPairs(as, bs)
        kept == SelectSeq(pairs, LAMBDA p : overlap_where(qp, as[p[1]], bs[p[2]]))
    IN [k \in DOMAIN kept |-> overlap_select(qp, as[kept[k][1]], bs[kept[k][2]])]

\* the options a caller can pass for a table with the given column names
ColumnOptions(schema) == IF schema = DEFAULT_COLUMN_NAMES THEN {None, schema} ELSE {schema}

do_overlap ==
    /\ ran = "none"
    /\ \E c1 \in ColumnOptions(left_schema), c2 \in ColumnOptions(right_schema) :
         out' = overlap_query(prepare_query(filter_op, c1, c2, "s1", "s2"),
                              left_rows, right_rows)
    /\ ran' = "overlap"
    /\ UNCHANGED <<left_rows, right_rows, left_schema, right_schema, filter_op>>
    /\ UNCHANGED <<dvars, svars, wvars, pvars>>

\* ---------------------------------------------- count-overlaps (udtf.rs)
\* build_coitree_from_batches: contig -> the intervals of the left table
build_coitree_from_batches(rows, columns) ==
    LET seqnames == {rows[i][columns[1]] : i \in DOMAIN rows}
    IN [c \in seqnames |->
          SelectSeq([i \in DOMAIN rows |-> rows[i]], LAMBDA r : r[columns[1]] = c)]

\* COITree::query_count(first, last): stored intervals [s, e] (end-inclusive)
\* with s <= last and e >= first
query_count(tree, columns, first, last) ==
    Cardinality({k \in DOMAIN tree : tree[k][columns[2]] <= last /\ tree[k][columns[3]] >= first})

\* the window get_stream hands to query_count for one right row
count_window(pos_start, pos_end) == <<pos_start + 1, pos_end - 1>>

\* get_stream: one output row per right row, in order, with the count appended
get_stream(lrows, rrows, columns_1, columns_2) ==
    LET trees == build_coitree_from_batches(lrows, columns_1)
    IN [i \in DOMAIN rrows |->
          LET contig == rrows[i][columns_2[1]]
              w == count_window(rrows[i][columns_2[2]], rrows[i][columns_2[3]])
          IN [row |-> rrows[i],
              count |-> IF contig \notin DOMAIN trees THEN 0
                        ELSE query_count(trees[contig], columns_1, w[1], w[2])]]

\* do_count_overlaps_coverage_naive -> CountOverlapsExec::execute -> get_stream
do_count_overlaps ==
    /\ ran = "none"
    /\ out' = get_stream(left_rows, right_rows, left_schema, right_schema)
    /\ ran' = "count_overlaps"
    /\ UNCHANGED <<left_rows, right_rows, left_schema, right_schema, filter_op>>
    /\ UNCHANGED <<dvars, svars, wvars, pvars>>

\* ------------------------------------------------------ nearest (nearest.rs)
\* a slip in the CASE expression: the second branch without abs()
nearest_distance_no_abs(a, b, columns_1, columns_2) ==
    IF b[columns_2[2]] >= a[columns_1[3]]
    THEN Abs(b[columns_2[2]] - a[columns_1[3]])
    ELSE IF b[columns_2[3]] <= a[columns_1[2]]
         THEN b[columns_2[3]] - a[columns_1[2]]
         ELSE 0

\* CASE WHEN b.start >= a.end THEN abs(b.start - a.end)
\*      WHEN b.end <= a.start THEN abs(b.end - a.start) ELSE 0 END
nearest_distance(a, b, columns_1, columns_2) ==
    IF b[columns_2[2]] >= a[columns_1[3]]
    THEN Abs(b[columns_2[2]] - a[columns_1[3]])
    ELSE IF b[columns_2[3]] <= a[columns_1[2]]
         THEN Abs(b[columns_2[3]] - a[columns_1[2]])
         ELSE 0

nearest_select(a, b, columns_1, columns_2) ==
    [left |-> <<a[columns_1[1]], a[columns_1[2]], a[columns_1[3]]>>,
     right |-> <<b[columns_2[1]], b[columns_2[2]], b[columns_2[3]]>>,
     distance |-> nearest_distance(a, b, columns_1, columns_2)]

\* FROM right AS b, left AS a WHERE b.{columns_1[0]} = a.{columns_2[0]} AND ...:
\* the WHERE clause names b's columns by columns_1 and a's by columns_2, so the
\* plan fails when a table has no column of the other table's name.  Under the
\* nearest join the range conditions are the join keys; which same-contig pairs
\* come back is the join engine's choice, and every pair it can return is here.
nearest_plan_ok(a_schema, b_schema, columns_1, columns_2) ==
    HasCols(b_schema, columns_1) /\ HasCols(a_schema, columns_2)

nearest_query(as, bs, columns_1, columns_2) ==
    LET pairs == CrossPairs(as, bs)
        kept == SelectSeq(pairs,
                   LAMBDA p : bs[p[2]][columns_1[1]] = as[p[1]][columns_2[1]])
    IN [k \in DOMAIN kept |->
          nearest_select(as[kept[k][1]], bs[kept[k][2]], columns_1, columns_2)]

do_nearest ==
    /\ ran = "none"
    /\ IF nearest_plan_ok(left_schema, right_schema, left_schema, right_schema)
       THEN /\ out' = nearest_query(left_rows, right_rows, left_schema, right_schema)
            /\ ran' = "nearest"
       ELSE /\ out' = <<>>
            /\ ran' = "nearest_plan_error"
    /\ UNCHANGED <<left_rows, right_rows, left_schema, right_schema, filter_op>>
    /\ UNCHANGED <<dvars, svars, wvars, pvars>>

\* ------------------------------------------- dispatch (operation.rs, lib.rs)
Threads == {"t1", "t2"}

\* option.rs RangeOp
RangeOps == {"Overlap", "Complement", "Cluster", "Nearest", "Coverage", "Subtract",
             "CountOverlapsNaive", "Merge"}

\* values of sequila.interval_join_algorithm; the last one is the nearest variant
Coitrees == "coitrees"
CoitreesNearest == "coitreesnearest"
Algorithms == {Coitrees, "lapper", CoitreesNearest}
\* RangeOptions.overlap_alg: Option<String>
OverlapAlgs == {None} \cup Algorithms

LEFT_TABLE == "s1"
RIGHT_TABLE == "s2"
CountOverlapsTable == "count_overlaps_coverage"
TableNames == {LEFT_TABLE, RIGHT_TABLE, CountOverlapsTable}

NoReq == [id |-> 0, range_op |-> None, overlap_alg |-> None]
Outcome(r, result, alg_at_query, writer_at_query, provider) ==
    [id |-> r.id, range_op |-> r.range_op, overlap_alg |-> r.overlap_alg,
     result |-> result, alg_at_query |-> alg_at_query,
     writer_at_query |-> writer_at_query, provider |-> provider]
NoWriter == [thread |-> None, id |-> 0, range_op |-> None]

\* a slip in the first match: the reserved tag falls through to the Some(alg) arm
preconfig_accepts_reserved(overlap_alg) ==
    IF overlap_alg # None THEN [panic |-> FALSE, alg |-> overlap_alg]
    ELSE [panic |-> FALSE, alg |-> Coitrees]

\* a slip in the first match: the Some(alg) arm writes the default tag
preconfig_always_default(overlap_alg) ==
    IF overlap_alg = CoitreesNearest THEN [panic |-> TRUE, alg |-> None]
    ELSE [panic |-> FALSE, alg |-> Coitrees]

\* do_range_operation, the first match (lines 55-69; operation_preconfig is the same)
preconfig(overlap_alg) ==
    IF overlap_alg = CoitreesNearest THEN [panic |-> TRUE, alg |-> None]
    ELSE IF overlap_alg # None THEN [panic |-> FALSE, alg |-> overlap_alg]
    ELSE [panic |-> FALSE, alg |-> Coitrees]

\* do_range_operation, the second match (lines 92-120): the arm a range_op takes
match_range_op(range_op) ==
    CASE range_op = "Overlap" -> "do_overlap"
      [] range_op = "Nearest" -> "do_nearest"
      [] range_op \in {"CountOverlapsNaive", "Coverage"} -> "do_count_overlaps_coverage_naive"
      [] OTHER -> "unsupported"

\* a slip in the Nearest arm: the tag set by the first match is left in place
nearest_algorithm_kept(current) == current

\* the Nearest arm's set_option_internal(ctx, "sequila.interval_join_algorithm", ...)
nearest_algorithm(current) == CoitreesNearest

Finish(t, outcome) ==
    /\ finished' = [finished EXCEPT ![t] = outcome]
    /\ req' = [req EXCEPT ![t] = NoReq]
    /\ pc' = [pc EXCEPT ![t] = "idle"]

\* entry of do_range_operation up to the end of the first match; `serial` is the
\* caller's discipline of running one dispatch at a time on a session
do_range_operation(t, range_op, overlap_alg, serial) ==
    /\ pc[t] = "idle"
    /\ serial => \A u \in Threads : pc[u] = "idle"
    /\ ndispatch < MaxDispatch
    /\ ndispatch' = ndispatch + 1
    /\ LET r == [id |-> ndispatch + 1, range_op |-> range_op, overlap_alg |-> overlap_alg]
           pre == preconfig(overlap_alg)
       IN IF pre.panic
          THEN /\ Finish(t, Outcome(r, "reserved_tag_panic", None, NoWriter, 0))
               /\ UNCHANGED <<interval_join_algorithm, last_writer>>
          ELSE /\ interval_join_algorithm' = pre.alg
               /\ last_writer' = [thread |-> t, id |-> r.id, range_op |-> range_op]
               /\ req' = [req EXCEPT ![t] = r]
               /\ finished' = [finished EXCEPT ![t] = NoReq]
               /\ pc' = [pc EXCEPT ![t] = "match"]
    /\ UNCHANGED <<catalog, registered, evicted>>
    /\ UNCHANGED <<qvars, svars, wvars, pvars>>

\* RangeOp::Overlap => do_overlap: prepare_query, then ctx.sql(query)
overlap_sql(t) ==
    /\ pc[t] = "match"
    /\ match_range_op(req[t].range_op) = "do_overlap"
    /\ Finish(t, Outcome(req[t], "lazy", interval_join_algorithm, last_writer, 0))
    /\ UNCHANGED <<interval_join_algorithm, catalog, ndispatch, last_writer, registered, evicted>>
    /\ UNCHANGED <<qvars, svars, wvars, pvars>>

\* RangeOp::Nearest => set_option_internal(..., "coitreesnearest")
nearest_set_option(t) ==
    /\ pc[t] = "match"
    /\ match_range_op(req[t].range_op) = "do_nearest"
    /\ interval_join_algorithm' = nearest_algorithm(interval_join_algorithm)
    /\ last_writer' = [thread |-> t, id |-> req[t].id, range_op |-> req[t].range_op]
    /\ pc' = [pc EXCEPT ![t] = "nearest_sql"]
    /\ UNCHANGED <<catalog, req, finished, ndispatch, registered, evicted>>
    /\ UNCHANGED <<qvars, svars, wvars, pvars>>

\* ... then do_nearest: ctx.sql(query)
nearest_sql(t) ==
    /\ pc[t] = "nearest_sql"
    /\ Finish(t, Outcome(req[t], "lazy", interval_join_algorithm, last_writer, 0))
    /\ UNCHANGED <<interval_join_algorithm, catalog, ndispatch, last_writer, registered, evicted>>
    /\ UNCHANGED <<qvars, svars, wvars, pvars>>

\* do_count_overlaps_coverage_naive: the name the provider is registered under
provider_table_name(id) == CountOverlapsTable

\* session.deregister_table(table_name)
deregister_table(t) ==
    /\ pc[t] = "match"
    /\ match_range_op(req[t].range_op) = "do_count_overlaps_coverage_naive"
    /\ LET name == provider_table_name(req[t].id)
       IN /\ catalog' = [catalog EXCEPT ![name] = 0]
          /\ evicted' = IF catalog[name] # 0 THEN evicted \cup {catalog[name]} ELSE evicted
    /\ pc' = [pc EXCEPT ![t] = "register"]
    /\ UNCHANGED <<interval_join_algorithm, req, finished, ndispatch, last_writer, registered>>
    /\ UNCHANGED <<qvars, svars, wvars, pvars>>

\* session.register_table(table_name, provider).unwrap(): the catalog refuses a
\* name that is taken
register_table(t) ==
    /\ pc[t] = "register"
    /\ LET name == provider_table_name(req[t].id)
       IN IF catalog[name] = 0
          THEN /\ catalog' = [catalog EXCEPT ![name] = req[t].id]
               /\ registered' = registered \cup {[id |-> req[t].id, name |-> name]}
               /\ pc' = [pc EXCEPT ![t] = "count_sql"]
               /\ UNCHANGED <<req, finished>>
          ELSE /\ Finish(t, Outcome(req[t], "register_panic", None, NoWriter, 0))
               /\ UNCHANGED <<catalog, registered>>
    /\ UNCHANGED <<interval_join_algorithm, ndispatch, last_writer, evicted>>
    /\ UNCHANGED <<qvars, svars, wvars, pvars>>

\* ctx.sql("SELECT * FROM count_overlaps_coverage").unwrap(): the plan binds the
\* provider the name resolves to when the query is issued
count_overlaps_sql(t) ==
    /\ pc[t] = "count_sql"
    /\ LET name == provider_table_name(req[t].id)
       IN IF catalog[name] = 0
          THEN Finish(t, Outcome(req[t], "sql_panic", None, NoWriter, 0))
          ELSE Finish(t, Outcome(req[t], "lazy", interval_join_algorithm, last_writer,
                                 catalog[name]))
    /\ UNCHANGED <<interval_join_algorithm, catalog, ndispatch, last_writer, registered, evicted>>
    /\ UNCHANGED <<qvars, svars, wvars, pvars>>

\* _ => panic!("Unsupported operation")
unsupported_operation(t) ==
    /\ pc[t] = "match"
    /\ match_range_op(req[t].range_op) = "unsupported"
    /\ Finish(t, Outcome(req[t], "unsupported_panic", None, NoWriter, 0))
    /\ UNCHANGED <<interval_join_algorithm, catalog, ndispatch, last_writer, registered, evicted>>
    /\ UNCHANGED <<qvars, svars, wvars, pvars>>

\* --------------------------------------------------- histogram provider
\* sequence_quality_histogram.rs: Phred+33 decoding into 94-slot histograms
PhredOffset == 33
NumSlots == 94

\* a byte below the offset, the two ends of the slot range, a byte past it
QualBytes == {32, 33, 126, 127}
QualStrings == UNION {[1..n -> QualBytes] : n \in 0..MaxQual}

\* a row of the quality column: a string or NULL
NullRow == [is_null |-> TRUE, value |-> <<>>]
QualRows == {[is_null |-> FALSE, value |-> s] : s \in QualStrings} \cup {NullRow}

\* the record batches the repartitioned input hands to one partition
QualBatches == {<<r>> : r \in QualRows}
QualStreams == UNION {[1..n -> QualBatches] : n \in 0..MaxReads}

\* vec![0u64; 94]
ZeroHist == [q \in 0..(NumSlots - 1) |-> 0]

\* Option<u8>
OptSome(v) == [some |-> TRUE, value |-> v]
OptNone == [some |-> FALSE, value |-> 0]

decode_score(c) == IF c >= PhredOffset THEN OptSome(c - PhredOffset) ELSE OptNone

\* the loop over s.bytes().enumerate(), from the i-th byte on (pos = i - 1)
RECURSIVE pos_map_add_string(_, _, _)
pos_map_add_string(pos_map, s, i) ==
    IF i > Len(s) THEN pos_map
    ELSE LET pos == i - 1
             score == decode_score(s[i])
             entry == IF pos \in DOMAIN pos_map THEN pos_map[pos] ELSE ZeroHist
             bumped == IF score.value < NumSlots
                       THEN [entry EXCEPT ![score.value] = @ + 1]
                       ELSE entry
         IN IF ~score.some THEN pos_map_add_string(pos_map, s, i + 1)
            ELSE pos_map_add_string(
                     [p \in (DOMAIN pos_map) \cup {pos} |->
                         IF p = pos THEN bumped ELSE pos_map[p]], s, i + 1)

\* the loop over the rows of one batch; NULL rows are skipped
RECURSIVE pos_map_add_batch(_, _, _)
pos_map_add_batch(pos_map, batch, row) ==
    IF row > Len(batch) THEN pos_map
    ELSE IF batch[row].is_null THEN pos_map_add_batch(pos_map, batch, row + 1)
    ELSE pos_map_add_batch(pos_map_add_string(pos_map, batch[row].value, 1), batch, row + 1)

\* the rows one position contributes to the output batch, zero counts included
pos_rows_with_zero(pos, counts_vec) ==
    [k \in 1..NumSlots |-> [pos |-> pos, score |-> k - 1, count |-> counts_vec[k - 1]]]

\* the rows one position contributes to the output batch
pos_rows(pos, counts_vec) ==
    SelectSeq([k \in 1..NumSlots |->
                  [pos |-> pos, score |-> k - 1, count |-> counts_vec[k - 1]]],
              LAMBDA r : r.count > 0)

\* the iteration orders of a HashMap with the keys S
Orders(S) == {f \in [1..Cardinality(S) -> S] : \A i, j \in DOMAIN f : f[i] = f[j] => i = j}

RECURSIVE flatten(_, _)
flatten(pos_map, order) ==
    IF order = <<>> THEN <<>>
    ELSE pos_rows(Head(order), pos_map[Head(order)]) \o flatten(pos_map, Tail(order))

\* then_err: after the batches of `stream` the upstream stream yields an Err
HistIdle == [stream |-> <<>>, then_err |-> FALSE, seen |-> <<>>, pos_map |-> <<>>,
             emitted |-> <<>>, error |-> "", phase |-> "idle"]

\* partition_stream.next() yields a batch: its strings are added to pos_map
hist_next_batch ==
    /\ hist_exec.phase = "poll"
    /\ hist_exec.stream # <<>>
    /\ hist_exec' = [hist_exec EXCEPT
           !.stream = Tail(@),
           !.seen = Append(@, Head(hist_exec.stream)),
           !.pos_map = pos_map_add_batch(@, Head(hist_exec.stream), 1)]
    /\ UNCHANGED <<qvars, dvars, wvars, pvars, quart, warn, macc, dec>>

\* partition_stream.next() yields None: pos_map is flattened into the one batch
hist_emit ==
    /\ hist_exec.phase = "poll"
    /\ hist_exec.stream = <<>>
    /\ ~hist_exec.then_err
    /\ \E order \in Orders(DOMAIN hist_exec.pos_map) :
         hist_exec' = [hist_exec EXCEPT
             !.emitted = Append(@, flatten(hist_exec.pos_map, order)),
             !.phase = "done"]
    /\ UNCHANGED <<qvars, dvars, wvars, pvars, quart, warn, macc, dec>>

\* partition_stream.next() yields an Err: `batch_result?` returns it from get_stream
hist_error ==
    /\ hist_exec.phase = "poll"
    /\ hist_exec.stream = <<>>
    /\ hist_exec.then_err
    /\ hist_exec' = [hist_exec EXCEPT !.error = "upstream", !.phase = "failed"]
    /\ UNCHANGED <<qvars, dvars, wvars, pvars, quart, warn, macc, dec>>

\* --------------------------------------------- per-position statistics
\* Statistics are f64 in the code; every value that occurs is a multiple of 1/8
\* (quartile ranks are multiples of 1/4, fences add 1.5 * iqr), so a statistic
\* is kept as the integer 8 * value.
Fixed(x) == 8 * x

\* scores that fall on either side of the warn and fail thresholds
StatScores == {10, 22, 30}
InputHists == {[q \in 0..(NumSlots - 1) |-> IF q \in StatScores THEN f[q] ELSE 0] :
                  f \in [StatScores -> 0..MaxCount]}

\* hist.iter().enumerate().filter(|(_, &count)| count > 0): the non-empty buckets,
\* ascending
buckets(hist) ==
    LET S == {q \in DOMAIN hist : hist[q] > 0}
    IN [i \in 1..Cardinality(S) |-> CHOOSE q \in S : Cardinality({p \in S : p < q}) = i - 1]

RECURSIVE SumOver(_, _, _)
SumOver(hist, bs, weighted) ==
    IF bs = <<>> THEN 0
    ELSE (IF weighted THEN Head(bs) * hist[Head(bs)] ELSE hist[Head(bs)])
         + SumOver(hist, Tail(bs), weighted)

\* hist.iter().sum()
HistTotal(hist) == SumOver(hist, buckets(hist), FALSE)
\* the sum of score * count
HistWeighted(hist) == SumOver(hist, buckets(hist), TRUE)

\* fold(0, |acc, (value, count)| if count > 0 { value } else { acc })
last_nonzero(hist) ==
    LET bs == buckets(hist) IN IF bs = <<>> THEN 0 ELSE bs[Len(bs)]

\* rank = quantile * (sum - 1) for quantile = k/4: <<floor(rank) + 1, 4 * delta>>
quantile_rank(k, sum) == <<((k * (sum - 1)) \div 4) + 1, (k * (sum - 1)) % 4>>

\* the loop over the non-empty buckets, from the i-th on; `miss` is what the
\* caller is left with when the loop ends without a hit
RECURSIVE quantile_scan(_, _, _, _, _, _, _, _)
quantile_scan(hist, bs, i, n, delta4, acc, lo, miss) ==
    IF i > Len(bs) THEN miss
    ELSE LET hi == bs[i]
         IN IF acc = n /\ lo.some THEN Fixed(lo.value) + (hi - lo.value) * 2 * delta4
            ELSE IF acc + hist[hi] > n THEN Fixed(hi)
            ELSE quantile_scan(hist, bs, i + 1, n, delta4, acc + hist[hi], OptSome(hi), miss)

Stats(lower, q1, median, q3, upper) ==
    [outcome |-> "row", lower |-> lower, q1 |-> q1, median |-> median, q3 |-> q3,
     upper |-> upper]
StatsPanic == [outcome |-> "panic", lower |-> 0, q1 |-> 0, median |-> 0, q3 |-> 0, upper |-> 0]
StatsSkip == [outcome |-> "skip", lower |-> 0, q1 |-> 0, median |-> 0, q3 |-> 0, upper |-> 0]

\* QuartilesAccumulator::quartiles (quality_udaf.rs), [lower, q1, median, q3, upper]
quartiles(hist) ==
    LET sum == HistTotal(hist)
        value == Fixed(last_nonzero(hist))
        ret(k) == LET r == quantile_rank(k, sum)
                  IN quantile_scan(hist, buckets(hist), 1, r[1], r[2], 0, OptNone, 0)
        iqr == ret(3) - ret(1)
    IN IF sum = 0 THEN StatsPanic
       ELSE IF sum = 1 THEN Stats(value, value, value, value, value)
       ELSE Stats(ret(1) - (3 * iqr) \div 2, ret(1), ret(2), ret(3), ret(3) + (3 * iqr) \div 2)

\* quartiles of quality.rs: the same function over a Vec<usize>
quality_quartiles(hist) == quartiles(hist)

\* calculate_histogram_stats (quantile_stats.rs)
calculate_histogram_stats(hist) ==
    LET total_count == HistTotal(hist)
        quantile(k) == LET r == quantile_rank(k, total_count)
                       IN quantile_scan(hist, buckets(hist), 1, r[1], r[2], 0, OptNone,
                                        Fixed(last_nonzero(hist)))
        iqr == quantile(3) - quantile(1)
    IN IF total_count = 0 THEN StatsSkip
       ELSE Stats(quantile(1) - (3 * iqr) \div 2, quantile(1), quantile(2), quantile(3),
                  quantile(3) + (3 * iqr) \div 2)

\* the decoded scores of one position, sorted (values.sort_unstable())
RECURSIVE sorted_values(_, _)
sorted_values(hist, bs) ==
    IF bs = <<>> THEN <<>>
    ELSE [i \in 1..hist[Head(bs)] |-> Head(bs)] \o sorted_values(hist, Tail(bs))

\* QualityScoresStats::calc_stats (udaf.rs) on the sorted values, 0-based indices
calc_stats(values) ==
    LET n == Len(values)
        at(i) == values[i + 1]
        median == IF n % 2 = 0 THEN (Fixed(at(n \div 2 - 1)) + Fixed(at(n \div 2))) \div 2
                  ELSE Fixed(at(n \div 2))
        q1 == Fixed(at(n \div 4))
        q3 == Fixed(at((3 * n) \div 4))
        iqr == q3 - q1
    IN Stats(q1 - (3 * iqr) \div 2, q1, median, q3, q3 + (3 * iqr) \div 2)

QuartIdle == [hist |-> ZeroHist, by |-> "none", stats |-> StatsSkip]

\* QuartilesAccumulator::evaluate, one position: quartiles(hist)
quartiles_evaluate ==
    /\ quart.by = "input"
    /\ quart' = [quart EXCEPT !.by = "quality_udaf", !.stats = quartiles(quart.hist)]
    /\ UNCHANGED <<qvars, dvars, wvars, pvars, hist_exec, warn, macc, dec>>

\* compute_base_quality (quality.rs), one position: quartiles(&hist)
compute_base_quality ==
    /\ quart.by = "input"
    /\ quart' = [quart EXCEPT !.by = "quality", !.stats = quality_quartiles(quart.hist)]
    /\ UNCHANGED <<qvars, dvars, wvars, pvars, hist_exec, warn, macc, dec>>

\* QuantileStatsExec::execute, one group: a row only for Some(stats)
quantile_stats_execute ==
    /\ quart.by = "input"
    /\ quart' = [quart EXCEPT !.by = "quantile_stats",
                              !.stats = calculate_histogram_stats(quart.hist)]
    /\ UNCHANGED <<qvars, dvars, wvars, pvars, hist_exec, warn, macc, dec>>

\* QualityScoresStats::evaluate, one position: empty values are skipped
quality_scores_evaluate ==
    /\ quart.by = "input"
    /\ LET values == sorted_values(quart.hist, buckets(quart.hist))
       IN quart' = [quart EXCEPT !.by = "udaf",
                       !.stats = IF values = <<>> THEN StatsSkip ELSE calc_stats(values)]
    /\ UNCHANGED <<qvars, dvars, wvars, pvars, hist_exec, warn, macc, dec>>

\* ------------------------------------------------------ base_quality_warn
\* the scores seen at one position: at least one, at most MaxCount
PositionHists == {h \in InputHists : HistTotal(h) >= 1 /\ HistTotal(h) <= MaxCount}
PositionLists == UNION {[1..n -> PositionHists] : n \in 0..MaxPos}

\* the match of QualityScoresStats::evaluate on (q1 <= 20, q1 <= 25, tag)
udaf_warn(q1, base_quality_warn) ==
    IF q1 <= Fixed(20) THEN "fail"
    ELSE IF q1 <= Fixed(25) /\ base_quality_warn = "pass" THEN "warn"
    ELSE base_quality_warn

\* the if / else-if of BaseQualityMetrics::finalize
finalize_warn(median, warning_status) ==
    IF median <= Fixed(20) THEN "fail"
    ELSE IF median <= Fixed(25) /\ warning_status # "fail" THEN "warn"
    ELSE warning_status

\* BaseQualityMetrics::calculate_quartiles: the weighted percentiles by linear
\* interpolation, rank = (p / 100) * (total - 1); values[2] is the median
calculate_quartiles(hist) == calculate_histogram_stats(hist)

WarnIdle == [by |-> "none", positions |-> <<>>, todo |-> {}, tag |-> "pass"]

\* QualityScoresStats::evaluate, one turn of the loop over values_per_pos (a
\* HashMap: any position not visited yet may come next)
udaf_evaluate_position ==
    /\ warn.by = "udaf"
    /\ \E pos \in warn.todo :
         LET stats == calc_stats(sorted_values(warn.positions[pos],
                                               buckets(warn.positions[pos])))
         IN warn' = [warn EXCEPT !.todo = @ \ {pos},
                                 !.tag = udaf_warn(stats.q1, warn.tag)]
    /\ UNCHANGED <<qvars, dvars, wvars, pvars, hist_exec, quart, macc, dec>>

\* BaseQualityMetrics::finalize, one turn of the loop over position_counts (a Vec:
\* positions in order)
finalize_position ==
    /\ warn.by = "base_quality"
    /\ warn.todo # {}
    /\ LET pos == CHOOSE p \in warn.todo : \A o \in warn.todo : p <= o
           values == calculate_quartiles(warn.positions[pos])
       IN warn' = [warn EXCEPT !.todo = @ \ {pos},
                               !.tag = finalize_warn(values.median, warn.tag)]
    /\ UNCHANGED <<qvars, dvars, wvars, pvars, hist_exec, quart, macc, dec>>

\* ------------------------------------------------- quartile accumulators
\* QuartilesAccumulator (quality_udaf.rs): hist is a Vec<PhredHist>, one
\* histogram per read position, position p at index p + 1
grow_to(hist, len) ==
    IF Len(hist) >= len THEN hist
    ELSE hist \o [i \in 1..(len - Len(hist)) |-> ZeroHist]

\* the loop of add_quality from the i-th byte on; q = byte - 33 underflows below
\* 33 and indexes past the histogram from 127 on: both abort
RECURSIVE add_quality_bytes(_, _, _)
add_quality_bytes(hist, arr, i) ==
    IF i > Len(arr) THEN [hist |-> hist, panic |-> FALSE]
    ELSE IF arr[i] < PhredOffset \/ arr[i] - PhredOffset >= NumSlots
         THEN [hist |-> hist, panic |-> TRUE]
    ELSE add_quality_bytes(
             [hist EXCEPT ![i] = [@ EXCEPT ![arr[i] - PhredOffset] = @ + 1]], arr, i + 1)

add_quality(hist, arr) == add_quality_bytes(grow_to(hist, Len(arr)), arr, 1)

\* QuartilesAccumulator::update_batch over the rows of one batch, NULLs skipped
RECURSIVE update_batch(_, _, _)
update_batch(hist, batch, i) ==
    IF i > Len(batch) THEN [hist |-> hist, panic |-> FALSE]
    ELSE IF batch[i].is_null THEN update_batch(hist, batch, i + 1)
    ELSE LET added == add_quality(hist, batch[i].value)
         IN IF added.panic THEN added ELSE update_batch(added.hist, batch, i + 1)

\* merge_hist without the grow_to: positions past self's length are lost
merge_hist_zip_only(self, other) ==
    [p \in DOMAIN self |->
        IF p \in DOMAIN other THEN [dig \in 0..(NumSlots - 1) |-> self[p][dig] + other[p][dig]]
        ELSE self[p]]

merge_hist(self, other) ==
    LET grown == grow_to(self, Len(other))
    IN [p \in DOMAIN grown |->
           IF p \in DOMAIN other
           THEN [dig \in 0..(NumSlots - 1) |-> grown[p][dig] + other[p][dig]]
           ELSE grown[p]]

\* QuartilesAccumulator::state: one List<List<UInt64>> value, the counts of each
\* position as a list
state(hist) == [p \in DOMAIN hist |-> [k \in 1..NumSlots |-> hist[p][k - 1]]]

\* merge_batch, one row of the state column: the first 94 counts of each inner
\* list are copied into a zero-filled bucket array, then merge_hist
merge_state(hist, positions) ==
    merge_hist(hist,
        [p \in DOMAIN positions |->
            [dig \in 0..(NumSlots - 1) |->
                IF dig + 1 <= Len(positions[p]) THEN positions[p][dig + 1] ELSE 0]])

\* QuartilesAccumulator::merge_batch over the rows of the state column
RECURSIVE merge_batch(_, _)
merge_batch(hist, states) ==
    IF states = <<>> THEN hist
    ELSE merge_batch(merge_state(hist, Head(states)), Tail(states))

\* QuartilesAccumulator::evaluate: quartiles asserts on an empty histogram, and
\* columns[0] indexes the empty `columns` vector on the first position
evaluate(hist) ==
    IF hist = <<>> THEN "empty_struct"
    ELSE IF quartiles(hist[1]).outcome = "panic" THEN "assert_panic"
    ELSE "index_panic"

\* ------------------------------------------------ QualityScoresStats (udaf.rs)
\* values_per_pos: position -> the decoded scores pushed so far
RECURSIVE scores_add_chars(_, _, _)
scores_add_chars(values_per_pos, val, i) ==
    IF i > Len(val) THEN values_per_pos
    ELSE LET j == i - 1
             decoded == decode_score(val[i])
         IN IF ~decoded.some THEN scores_add_chars(values_per_pos, val, i + 1)
            ELSE scores_add_chars(
                     [p \in (DOMAIN values_per_pos) \cup {j} |->
                         IF p \in DOMAIN values_per_pos /\ p # j THEN values_per_pos[p]
                         ELSE IF p \in DOMAIN values_per_pos
                              THEN Append(values_per_pos[p], decoded.value)
                              ELSE <<decoded.value>>], val, i + 1)

RECURSIVE scores_update_batch(_, _, _)
scores_update_batch(values_per_pos, batch, i) ==
    IF i > Len(batch) THEN values_per_pos
    ELSE IF batch[i].is_null THEN scores_update_batch(values_per_pos, batch, i + 1)
    ELSE scores_update_batch(scores_add_chars(values_per_pos, batch[i].value, 1), batch, i + 1)

\* QualityScoresStats::state: Ok(vec![])
scores_state(values_per_pos) == <<>>

\* QualityScoresStats::merge_batch: Ok(()) with the states ignored
scores_merge_batch(values_per_pos, states) == values_per_pos

\* the histogram of a list of scores
ScoreHist(values) ==
    [q \in 0..(NumSlots - 1) |-> Cardinality({k \in DOMAIN values : values[k] = q})]

\* QualityScoresStats::evaluate: the rows of base_per_pos_data by position (the
\* order of the rows is the HashMap's) and the tag
scores_evaluate(values_per_pos) ==
    LET kept == {p \in DOMAIN values_per_pos : values_per_pos[p] # <<>>}
        rows == [p \in kept |->
                    calc_stats(sorted_values(ScoreHist(values_per_pos[p]),
                                             buckets(ScoreHist(values_per_pos[p]))))]
    IN [rows |-> rows,
        base_quality_warn |->
            IF \E p \in kept : rows[p].q1 <= Fixed(20) THEN "fail"
            ELSE IF \E p \in kept : rows[p].q1 <= Fixed(25) THEN "warn"
            ELSE "pass"]

\* ------------------------------------------------- partial aggregation
\* bytes every decoder accepts
ValidBytes == {b \in QualBytes : b >= PhredOffset /\ b - PhredOffset < NumSlots}
ValidRows == {r \in QualRows : \A i \in DOMAIN r.value : r.value[i] \in ValidBytes}

Parts == {"A", "B", "C"}
MergeOrders == {o \in [1..3 -> Parts] : \A i, j \in 1..3 : o[i] = o[j] => i = j}

\* a fresh accumulator of either kind, and its operations
NewAccumulator(kind) == <<>>
AccUpdate(kind, acc, batch) ==
    IF kind = "quartiles" THEN update_batch(acc, batch, 1).hist
    ELSE scores_update_batch(acc, batch, 1)
AccState(kind, acc) == IF kind = "quartiles" THEN state(acc) ELSE scores_state(acc)
AccMerge(kind, acc, states) ==
    IF kind = "quartiles" THEN merge_batch(acc, states) ELSE scores_merge_batch(acc, states)
AccEvaluate(kind, acc) == IF kind = "quartiles" THEN evaluate(acc) ELSE scores_evaluate(acc)

MergeIdle == [kind |-> "none", rows |-> <<>>, parts |-> <<>>, phase |-> "idle",
              how |-> "none", merged |-> <<>>, output |-> "none"]

\* one partial accumulator receives the states of the two others in one batch
merge_flat ==
    /\ macc.phase = "partial"
    /\ \E o \in MergeOrders :
         LET result == AccMerge(macc.kind, macc.parts[o[1]],
                                <<AccState(macc.kind, macc.parts[o[2]]),
                                  AccState(macc.kind, macc.parts[o[3]])>>)
         IN macc' = [macc EXCEPT !.phase = "merged", !.how = <<"flat", o>>,
                                 !.merged = result,
                                 !.output = AccEvaluate(macc.kind, result)]
    /\ UNCHANGED <<qvars, dvars, wvars, pvars, hist_exec, quart, warn, dec>>

\* two partial accumulators are merged first and their state goes to the third
merge_nested ==
    /\ macc.phase = "partial"
    /\ \E o \in MergeOrders :
         LET inner == AccMerge(macc.kind, macc.parts[o[2]],
                               <<AccState(macc.kind, macc.parts[o[3]])>>)
             result == AccMerge(macc.kind, macc.parts[o[1]],
                                <<AccState(macc.kind, inner)>>)
         IN macc' = [macc EXCEPT !.phase = "merged", !.how = <<"nested", o>>,
                                 !.merged = result,
                                 !.output = AccEvaluate(macc.kind, result)]
    /\ UNCHANGED <<qvars, dvars, wvars, pvars, hist_exec, quart, warn, dec>>

\* A is serialised with state() and fed to B.merge_batch
merge_pair ==
    /\ macc.phase = "partial"
    /\ LET result == AccMerge(macc.kind, macc.parts["B"],
                              <<AccState(macc.kind, macc.parts["A"])>>)
       IN macc' = [macc EXCEPT !.phase = "merged", !.how = <<"pair", <<"B", "A">>>>,
                               !.merged = result,
                               !.output = AccEvaluate(macc.kind, result)]
    /\ UNCHANGED <<qvars, dvars, wvars, pvars, hist_exec, quart, warn, dec>>

\* ----------------------------------------------- decoding a quality column
\* do_compute (quality.rs), the loop over the bytes of one string: the count
\* vector of the position is created, then indexed with byte - 33
RECURSIVE do_compute_bytes(_, _, _)
do_compute_bytes(base_quality_count, qs, i) ==
    IF i > Len(qs) THEN [hist |-> base_quality_count, panic |-> FALSE]
    ELSE LET pos == i - 1
             entry == IF pos \in DOMAIN base_quality_count THEN base_quality_count[pos]
                      ELSE ZeroHist
         IN IF qs[i] < PhredOffset THEN [hist |-> base_quality_count, panic |-> TRUE]
            ELSE IF qs[i] - PhredOffset >= NumSlots
                 THEN [hist |-> [p \in (DOMAIN base_quality_count) \cup {pos} |->
                                    IF p = pos THEN entry ELSE base_quality_count[p]],
                       panic |-> TRUE]
            ELSE do_compute_bytes(
                     [p \in (DOMAIN base_quality_count) \cup {pos} |->
                         IF p = pos THEN [entry EXCEPT ![qs[i] - PhredOffset] = @ + 1]
                         ELSE base_quality_count[p]], qs, i + 1)

\* do_compute, the loop over the rows of one batch; value(row) of a NULL row is
\* the empty string
RECURSIVE do_compute_rows(_, _, _)
do_compute_rows(base_quality_count, batch, row) ==
    IF row > Len(batch) THEN [hist |-> base_quality_count, panic |-> FALSE]
    ELSE LET added == do_compute_bytes(base_quality_count, batch[row].value, 1)
         IN IF added.panic THEN added ELSE do_compute_rows(added.hist, batch, row + 1)

DecIdle == [path |-> "none", stream |-> <<>>, seen |-> <<>>, hist |-> <<>>,
            status |-> "idle"]

\* QuartilesAccumulator::update_batch on the next batch of the column
quartiles_update_batch ==
    /\ dec.path = "quality_udaf" /\ dec.status = "running"
    /\ dec.stream # <<>>
    /\ LET r == update_batch(dec.hist, Head(dec.stream), 1)
       IN dec' = [dec EXCEPT !.stream = Tail(@), !.seen = Append(@, Head(dec.stream)),
                             !.hist = r.hist,
                             !.status = IF r.panic THEN "panic" ELSE "running"]
    /\ UNCHANGED <<qvars, dvars, wvars, pvars, hist_exec, quart, warn, macc>>

\* do_compute on the next batch of the stream
do_compute_batch ==
    /\ dec.path = "quality" /\ dec.status = "running"
    /\ dec.stream # <<>>
    /\ LET r == do_compute_rows(dec.hist, Head(dec.stream), 1)
       IN dec' = [dec EXCEPT !.stream = Tail(@), !.seen = Append(@, Head(dec.stream)),
                             !.hist = r.hist,
                             !.status = IF r.panic THEN "panic" ELSE "running"]
    /\ UNCHANGED <<qvars, dvars, wvars, pvars, hist_exec, quart, warn, macc>>

\* ------------------------------------------------------------ write path
\* the `count` column WriteExec emits: rows that are NULL or hold a row count
CountRows == {[is_null |-> TRUE, value |-> 0], [is_null |-> FALSE, value |-> MaxCount]}
CountColumns == UNION {[1..n -> CountRows] : n \in 0..MaxReads}

\* a record batch of the write stream: the Arrow type of its `count` column
\* ("absent" when it has none), that column, and num_rows
WriteBatches ==
    {[count_type |-> "UInt64", count |-> c, num_rows |-> Len(c)] : c \in CountColumns}
    \cup {[count_type |-> "Int64", count |-> [i \in 1..n |-> [is_null |-> FALSE, value |-> MaxCount]],
           num_rows |-> n] : n \in 0..MaxReads}
    \cup {[count_type |-> "absent", count |-> <<>>, num_rows |-> n] : n \in 0..MaxReads}

\* what stream.next() yields: Ok(batch) or Err
WriteItems ==
    {[is_err |-> FALSE, batch |-> b] : b \in WriteBatches}
    \cup {[is_err |-> TRUE, batch |-> [count_type |-> "absent", count |-> <<>>, num_rows |-> 0]]}
WriteStreams == UNION {[1..n -> WriteItems] : n \in 0..MaxBatches}

\* consume_write_stream, what one batch adds to total_rows
batch_rows(batch) ==
    IF batch.count_type # "absent"
    THEN IF batch.count_type = "UInt64"
         THEN IF Len(batch.count) > 0 /\ ~batch.count[1].is_null
              THEN batch.count[1].value
              ELSE 0
         ELSE 0
    ELSE batch.num_rows

WStreamIdle == [stream |-> <<>>, seen |-> <<>>, total_rows |-> 0, status |-> "idle"]

\* one turn of the `while let Some(batch_result) = stream.next().await` loop
consume_next_batch ==
    /\ wstream.status = "running"
    /\ wstream.stream # <<>>
    /\ LET item == Head(wstream.stream)
       IN wstream' = IF item.is_err
                     THEN [wstream EXCEPT !.stream = Tail(@), !.status = "err"]
                     ELSE [wstream EXCEPT !.stream = Tail(@),
                                          !.seen = Append(@, item.batch),
                                          !.total_rows = @ + batch_rows(item.batch)]
    /\ UNCHANGED <<qvars, dvars, svars, pvars, vcf, bam>>

\* the stream is exhausted: Ok(total_rows)
consume_return ==
    /\ wstream.status = "running"
    /\ wstream.stream = <<>>
    /\ wstream' = [wstream EXCEPT !.status = "ok"]
    /\ UNCHANGED <<qvars, dvars, svars, pvars, vcf, bam>>

\* ------------------------------------------- VCF metadata on the schema
\* core_columns of apply_vcf_metadata_to_schema
VcfCoreColumns == {"chrom", "start", "end", "id", "ref", "alt", "qual", "filter"}

\* serde_json values: a string, a number, or an object with the entries
\* "number", "type" and "description"
JsonString(t) == [json |-> "string", text |-> t]
JsonNumber(t) == [json |-> "number", text |-> t]
MetaObject(number, description) ==
    [is_object |-> TRUE, number |-> number, type |-> JsonString("Integer"),
     description |-> JsonString(description)]
NotAnObject ==
    [is_object |-> FALSE, number |-> JsonString(""), type |-> JsonString(""),
     description |-> JsonString("")]
MetaValues(category, id) ==
    {NotAnObject,
     MetaObject(JsonString("1"), category \o " " \o id),
     MetaObject(JsonNumber("1"), category \o " " \o id)}

\* the parsed metadata maps HashMap<String, Value> over a set of keys
MetaMaps(category, keys) ==
    UNION {{m \in [K -> UNION {MetaValues(category, k) : k \in K}] :
               \A k \in K : m[k] \in MetaValues(category, k)} : K \in SUBSET keys}
InfoMetas == MetaMaps("INFO", {"DP", "genotypes"})
FormatMetas == MetaMaps("FORMAT", {"DP", "MIN_DP"})
SampleNames == {<<>>, <<"S">>, <<"S", "S_MIN">>}

\* Arrow fields: a scalar column, and the nested multi-sample column
\* genotypes: list<struct<sample_id, values: struct<FORMAT fields>>>
ScalarType == [kind |-> "Int32", values |-> <<>>]
GenotypesType == [kind |-> "List", values |-> <<[name |-> "DP", metadata |-> {}]>>]
VcfFields ==
    {[name |-> n, data_type |-> ScalarType, metadata |-> {}] :
        n \in {"chrom", "DP", "S_DP", "S_MIN_DP", "genotypes"}}
    \cup {[name |-> "genotypes", data_type |-> GenotypesType, metadata |-> {}]}
VcfSchemas ==
    UNION {{sch \in [1..n -> VcfFields] :
               \A i, j \in 1..n : sch[i].name = sch[j].name => i = j} : n \in 1..MaxFields}

build_field_metadata_from_vcf_meta(meta_obj) ==
    (IF meta_obj.number.json = "string"
     THEN {<<"VCF_FIELD_NUMBER_KEY", meta_obj.number.text>>} ELSE {})
    \cup (IF meta_obj.type.json = "string"
          THEN {<<"VCF_FIELD_TYPE_KEY", meta_obj.type.text>>} ELSE {})
    \cup (IF meta_obj.description.json = "string"
          THEN {<<"VCF_FIELD_DESCRIPTION_KEY", meta_obj.description.text>>} ELSE {})

\* the names of genotypes.values of the first field called genotypes
extract_format_fields_from_nested_genotypes(schema) ==
    LET found == {i \in DOMAIN schema : schema[i].name = "genotypes"}
    IN IF found = {} THEN <<>>
       ELSE LET genotypes_field == schema[CHOOSE i \in found : \A j \in found : i <= j]
            IN IF genotypes_field.data_type.kind # "List" THEN <<>>
               ELSE [i \in DOMAIN genotypes_field.data_type.values |->
                        genotypes_field.data_type.values[i].name]

\* if !format_fields.contains(format_id) { format_fields.push(format_id) }
push_format_field(format_fields, format_id) ==
    IF \E i \in DOMAIN format_fields : format_fields[i] = format_id THEN format_fields
    ELSE Append(format_fields, format_id)

RECURSIVE push_value_fields(_, _, _)
push_value_fields(format_fields, values, i) ==
    IF i > Len(values) THEN format_fields
    ELSE push_value_fields(push_format_field(format_fields, values[i].name), values, i + 1)

\* the fields of genotypes.values rebuilt with the FORMAT metadata of their ids
rebuilt_values_fields(values, format_meta) ==
    [i \in DOMAIN values |->
        IF values[i].name \in DOMAIN format_meta /\ format_meta[values[i].name].is_object
        THEN [values[i] EXCEPT
                 !.metadata = build_field_metadata_from_vcf_meta(format_meta[values[i].name])]
        ELSE values[i]]

\* the loops `for format_name in format_meta.keys()`, `for sample in
\* &sample_names`: the first format id, in the order of keys, with a sample such
\* that the column is "{sample}_{format_name}" and the id's metadata an object
multi_sample_match(name, keys, sample_names, format_meta) ==
    LET hits == {k \in DOMAIN keys :
                    /\ format_meta[keys[k]].is_object
                    /\ \E j \in DOMAIN sample_names :
                          name = sample_names[j] \o "_" \o keys[k]}
    IN IF hits = {} THEN [found |-> FALSE, format_name |-> ""]
       ELSE [found |-> TRUE,
             format_name |-> keys[CHOOSE k \in hits : \A h \in hits : k <= h]]

\* the body of `for field in schema.fields()`
annotate_vcf_field(acc, field, info_meta, format_meta, keys, sample_names) ==
    LET name == field.name
        m == multi_sample_match(name, keys, sample_names, format_meta)
    IN IF name \in VcfCoreColumns
       THEN [acc EXCEPT !.new_fields = Append(@, field)]
       ELSE IF name = "genotypes" /\ field.data_type.kind = "List"
       THEN [acc EXCEPT
                !.new_fields = Append(@, [field EXCEPT !.data_type.values =
                                   rebuilt_values_fields(@, format_meta)]),
                !.format_fields = push_value_fields(@, field.data_type.values, 1)]
       ELSE IF name \in DOMAIN info_meta /\ info_meta[name].is_object
       THEN [acc EXCEPT
                !.info_fields = Append(@, name),
                !.new_fields = Append(@, [field EXCEPT !.metadata =
                                   build_field_metadata_from_vcf_meta(info_meta[name])])]
       ELSE IF m.found
       THEN [acc EXCEPT
                !.format_fields = push_format_field(@, m.format_name),
                !.new_fields = Append(@, [field EXCEPT !.metadata =
                                   build_field_metadata_from_vcf_meta(format_meta[m.format_name])])]
       ELSE IF name \in DOMAIN format_meta /\ format_meta[name].is_object
       THEN [acc EXCEPT
                !.format_fields = push_format_field(@, name),
                !.new_fields = Append(@, [field EXCEPT !.metadata =
                                   build_field_metadata_from_vcf_meta(format_meta[name])])]
       ELSE [acc EXCEPT !.new_fields = Append(@, field)]

RECURSIVE annotate_vcf_fields(_, _, _, _, _, _, _)
annotate_vcf_fields(acc, schema, i, info_meta, format_meta, keys, sample_names) ==
    IF i > Len(schema) THEN acc
    ELSE annotate_vcf_fields(
             annotate_vcf_field(acc, schema[i], info_meta, format_meta, keys, sample_names),
             schema, i + 1, info_meta, format_meta, keys, sample_names)

\* apply_vcf_metadata_to_schema on parsed arguments; keys is the order in which
\* the HashMap format_meta hands out its keys
apply_vcf_metadata_to_schema(schema, info_meta, format_meta, keys, sample_names) ==
    LET acc == annotate_vcf_fields(
                   [new_fields |-> <<>>, info_fields |-> <<>>, format_fields |-> <<>>],
                   schema, 1, info_meta, format_meta, keys, sample_names)
        nested_format_fields == extract_format_fields_from_nested_genotypes(schema)
    IN [info_fields |-> acc.info_fields,
        format_fields |-> IF acc.format_fields = <<>> /\ nested_format_fields # <<>>
                          THEN nested_format_fields ELSE acc.format_fields,
        sample_names |-> sample_names,
        new_schema |-> acc.new_fields]

VcfNoResult == [info_fields |-> <<>>, format_fields |-> <<>>, sample_names |-> <<>>,
                new_schema |-> <<>>]
VcfIdle == [phase |-> "idle", schema |-> <<>>, info_meta |-> <<>>, format_meta |-> <<>>,
            sample_names |-> <<>>, result |-> VcfNoResult]

\* one call of apply_vcf_metadata_to_schema
apply_vcf_metadata ==
    /\ vcf.phase = "call"
    /\ \E keys \in Orders(DOMAIN vcf.format_meta) :
          vcf' = [vcf EXCEPT !.phase = "done",
                             !.result = apply_vcf_metadata_to_schema(
                                 vcf.schema, vcf.info_meta, vcf.format_meta, keys,
                                 vcf.sample_names)]
    /\ UNCHANGED <<qvars, dvars, svars, pvars, wstream, bam>>

\* --------------------------------------------- BAM/CRAM tag metadata
\* core_columns of extract_tag_fields_from_schema
BamCoreColumns == {"name", "chrom", "start", "end", "flags", "cigar", "mapping_quality",
                   "mate_chrom", "mate_start", "sequence", "quality_scores",
                   "template_length"}

\* the Arrow data types the match of add_bam_tag_metadata names
IntTypes == {"Int8", "Int16", "Int32", "Int64", "UInt8", "UInt16", "UInt32", "UInt64"}
NamedFloatTypes == {"Float32", "Float64"}
NamedStringTypes == {"Utf8", "LargeUtf8"}
NamedListTypes == {"List", "LargeList", "FixedSizeList"}
\* the data types of the columns handed to the writer
ArrowTypes == {"Int32", "UInt8", "Float16", "Float32", "Float64", "Utf8", "LargeUtf8",
               "List", "LargeList", "FixedSizeList", "Boolean"}

\* field metadata: a value of BAM_TAG_TYPE_KEY (a string, as its characters)
\* and a value of BAM_TAG_TAG_KEY, each present or not
NoTagType == [some |-> FALSE, value |-> <<>>]
SomeTagType(chars) == [some |-> TRUE, value |-> chars]
NoTag == [some |-> FALSE, value |-> ""]
SomeTag(t) == [some |-> TRUE, value |-> t]
\* tag types as read_bam and add_bam_tag_metadata write them: one character
ExistingTagTypes == {NoTagType, SomeTagType(<<"A">>), SomeTagType(<<"i">>)}

BamFields ==
    {[name |-> "chrom", data_type |-> "Utf8", tag_type |-> NoTagType, tag |-> NoTag]}
    \cup {[name |-> n, data_type |-> t, tag_type |-> e,
           tag |-> IF e.some THEN SomeTag(n) ELSE NoTag] :
             n \in {"NM", "XS"}, t \in ArrowTypes, e \in ExistingTagTypes}
BamSchemas ==
    UNION {{sch \in [1..n -> BamFields] :
               \A i, j \in 1..n : sch[i].name = sch[j].name => i = j} : n \in 1..MaxFields}
\* WriteOptions tag_fields: None, or Some(list of column names)
TagFieldOptions ==
    {[some |-> FALSE, value |-> <<>>], [some |-> TRUE, value |-> <<>>],
     [some |-> TRUE, value |-> <<"NM">>]}

extract_tag_fields_from_schema(schema) ==
    LET non_core(field) == field.name \notin BamCoreColumns
        kept == SelectSeq(schema, non_core)
    IN [i \in DOMAIN kept |-> kept[i].name]

\* `let sam_type = ...` of add_bam_tag_metadata
sam_type(field) ==
    IF field.tag_type.some
    THEN IF field.tag_type.value = <<>> THEN "Z" ELSE Head(field.tag_type.value)
    ELSE IF field.data_type \in IntTypes THEN "i"
    ELSE IF field.data_type \in NamedFloatTypes THEN "f"
    ELSE IF field.data_type \in NamedStringTypes THEN "Z"
    ELSE IF field.data_type \in NamedListTypes THEN "B"
    ELSE "Z"

add_bam_tag_metadata(schema, tag_fields) ==
    LET tag_set == {tag_fields[i] : i \in DOMAIN tag_fields}
    IN [i \in DOMAIN schema |->
           IF schema[i].name \in tag_set
           THEN [schema[i] EXCEPT !.tag_type = SomeTagType(<<sam_type(schema[i])>>),
                                  !.tag = SomeTag(schema[i].name)]
           ELSE schema[i]]

BamIdle == [phase |-> "idle", schema |-> <<>>, tag_fields |-> [some |-> FALSE, value |-> <<>>],
            tags |-> <<>>, schema_with_metadata |-> <<>>]

\* write_bam_streaming / write_cram_streaming up to schema_with_metadata
bam_tag_schema ==
    /\ bam.phase = "call"
    /\ LET tags == IF bam.tag_fields.some THEN bam.tag_fields.value
                   ELSE extract_tag_fields_from_schema(bam.schema)
       IN bam' = [bam EXCEPT !.phase = "done", !.tags = tags,
                             !.schema_with_metadata = add_bam_tag_metadata(bam.schema, tags)]
    /\ UNCHANGED <<qvars, dvars, svars, pvars, wstream, vcf>>


\* ------------------------------------------- schema-override stream
\* Arrow data types of the columns: Utf8 and Int32 cast into each other, a
\* struct casts to and from neither
ColumnTypes == {"Utf8", "Int32", "Struct"}

\* arrow::compute::cast(column, target): may the kernel cast between the types
can_cast_types(from, to) == from = to \/ (from # "Struct" /\ to # "Struct")

\* the columns cast can return: a string that does not parse becomes NULL
cast_results(column, target) ==
    IF column.data_type = "Utf8" /\ target = "Int32"
    THEN {[data_type |-> target, has_nulls |-> column.has_nulls],
          [data_type |-> target, has_nulls |-> TRUE]}
    ELSE {[data_type |-> target, has_nulls |-> column.has_nulls]}

PipeColumns == [data_type : ColumnTypes, has_nulls : BOOLEAN]
PipeFields == [data_type : ColumnTypes, nullable : BOOLEAN]
\* the schema handed to SchemaOverrideExec::new, enriched with field metadata
OverrideSchemas ==
    UNION {[metadata : {"enriched"}, fields : [1..n -> PipeFields]] : n \in 1..MaxFields}
\* a batch of the upstream plan: its schema has lost the field metadata
input_schema(columns) ==
    [metadata |-> "none",
     fields |-> [i \in DOMAIN columns |->
                    [data_type |-> columns[i].data_type, nullable |-> TRUE]]]
InputBatches ==
    UNION {{[schema |-> input_schema(columns), columns |-> columns] :
               columns \in [1..n -> PipeColumns]} : n \in 1..MaxFields}
NoBatch == [schema |-> [metadata |-> "none", fields |-> <<>>], columns |-> <<>>]
OkItem(batch) == [kind |-> "ok", batch |-> batch, error |-> ""]
ErrItem(e) == [kind |-> "err", batch |-> NoBatch, error |-> e]

\* RecordBatch::try_new(schema, columns) accepts the columns
try_new_ok(schema, columns) ==
    /\ Len(columns) = Len(schema.fields)
    /\ \A i \in DOMAIN columns :
          /\ columns[i].data_type = schema.fields[i].data_type
          /\ columns[i].has_nulls => schema.fields[i].nullable

\* the loop over batch.columns().iter().zip(self.schema.fields().iter()): the
\* column vectors it can build, one choice per cast
reconciled_columns(batch, schema) ==
    LET n == IF Len(batch.columns) < Len(schema.fields) THEN Len(batch.columns)
             ELSE Len(schema.fields)
    IN {columns \in [1..n -> PipeColumns] :
           \A i \in 1..n :
               IF batch.columns[i].data_type = schema.fields[i].data_type
               THEN columns[i] = batch.columns[i]
               ELSE IF can_cast_types(batch.columns[i].data_type, schema.fields[i].data_type)
               THEN columns[i] \in cast_results(batch.columns[i], schema.fields[i].data_type)
               ELSE columns[i] = batch.columns[i]}

\* a failed cast ends the stream's item with an error, mutation of override_item
override_item_cast_error(batch, schema, columns) ==
    IF \E i \in DOMAIN columns : columns[i].data_type # schema.fields[i].data_type
    THEN ErrItem("cast")
    ELSE IF try_new_ok(schema, columns)
    THEN OkItem([schema |-> schema, columns |-> columns])
    ELSE OkItem(batch)

\* match RecordBatch::try_new(self.schema.clone(), columns)
override_item(batch, schema, columns) ==
    IF try_new_ok(schema, columns)
    THEN OkItem([schema |-> schema, columns |-> columns])
    ELSE OkItem(batch)

PipeIdle == [op |-> "none", schema |-> [metadata |-> "none", fields |-> <<>>],
             lrows |-> <<>>, input |-> <<>>, output |-> <<>>, done |-> FALSE]

\* SchemaOverrideStream::poll_next, the upstream stream being ready
override_poll_next ==
    /\ pipe.op = "schema_override"
    /\ ~pipe.done
    /\ Len(pipe.input) < MaxBatches
    /\ \/ \E batch \in InputBatches :
             \E columns \in reconciled_columns(batch, pipe.schema) :
                pipe' = [pipe EXCEPT !.input = Append(@, OkItem(batch)),
                                     !.output = Append(@, override_item(batch, pipe.schema, columns))]
       \/ pipe' = [pipe EXCEPT !.input = Append(@, ErrItem("upstream")),
                               !.output = Append(@, ErrItem("upstream"))]
       \/ pipe' = [pipe EXCEPT !.done = TRUE]
    /\ UNCHANGED <<qvars, dvars, svars, wvars, pystream, parsed, lazy, hstage>>

\* ------------------------------------------- count-overlaps stream
\* an Err of the right table's stream answered with an empty batch, mutation
\* of count_overlaps_item
count_overlaps_item_swallow(item, lrows) ==
    IF item.kind = "ok"
    THEN OkItem(get_stream(lrows, item.batch, DEFAULT_COLUMN_NAMES, DEFAULT_COLUMN_NAMES))
    ELSE OkItem(<<>>)

\* the closure of stream.map(move |rb| match rb { .. }) in get_stream
count_overlaps_item(item, lrows) ==
    IF item.kind = "ok"
    THEN OkItem(get_stream(lrows, item.batch, DEFAULT_COLUMN_NAMES, DEFAULT_COLUMN_NAMES))
    ELSE item

\* what the stream of the right table yields: a batch of at most one row, or Err
RightItems ==
    {OkItem(batch) : batch \in Tables(DEFAULT_COLUMN_NAMES, MaxLeft)}
    \cup {[kind |-> "err", batch |-> <<>>, error |-> "upstream"]}

\* one item of the right table's stream goes through the map
count_overlaps_poll_next ==
    /\ pipe.op = "count_overlaps"
    /\ ~pipe.done
    /\ Len(pipe.input) < MaxBatches
    /\ \/ \E item \in RightItems :
             pipe' = [pipe EXCEPT !.input = Append(@, item),
                                  !.output = Append(@, count_overlaps_item(item, pipe.lrows))]
       \/ pipe' = [pipe EXCEPT !.done = TRUE]
    /\ UNCHANGED <<qvars, dvars, svars, wvars, pystream, parsed, lazy, hstage>>

\* ------------------------------------------- Python iterator streams
\* what __next__ does for one item of the iterator: it raises, or returns a
\* frame whose Arrow table has nbatches record batches
PyItems == [raises : BOOLEAN, nbatches : 0..MaxBatches]
PyIterators == UNION {[1..n -> {it \in PyItems : it.raises => it.nbatches = 0}] :
                         n \in 0..MaxItems}
\* polls of one stream the model follows
MaxPolls == MaxItems * MaxBatches + 2

\* what a poll returns: Some(Ok(batch)), Some(Err(_)) or None; the j-th batch
\* of the i-th item is named <<i, j>>
BatchResult(id) == [kind |-> "batch", id |-> id]
ErrResult == [kind |-> "err", id |-> <<0, 0>>]
EndResult == [kind |-> "end", id |-> <<0, 0>>]

\* PythonBatchStream::new
NewPyStream == [pending_batches |-> <<>>, exhausted |-> FALSE, yielded |-> <<>>]

\* only the first batch of the item kept, mutation of buffer_batches
buffer_batches_first_only(batches) == <<>>

\* batches.remove(0); self.pending_batches.extend(batches)
buffer_batches(batches) == Tail(batches)

\* PythonBatchStream::next_batch: the loop, with the shared iterator at `cursor`
\* after `calls` calls of __next__
RECURSIVE next_batch(_, _, _, _)
next_batch(stream, items, cursor, calls) ==
    IF stream.pending_batches # <<>>
    THEN [stream |-> [stream EXCEPT !.pending_batches = Tail(@)],
          cursor |-> cursor, calls |-> calls,
          result |-> BatchResult(Head(stream.pending_batches))]
    ELSE IF stream.exhausted
    THEN [stream |-> stream, cursor |-> cursor, calls |-> calls, result |-> EndResult]
    ELSE IF cursor > Len(items)
    THEN [stream |-> [stream EXCEPT !.exhausted = TRUE],
          cursor |-> cursor, calls |-> calls + 1, result |-> EndResult]
    ELSE IF items[cursor].raises
    THEN [stream |-> stream, cursor |-> cursor + 1, calls |-> calls + 1,
          result |-> ErrResult]
    ELSE IF items[cursor].nbatches = 0
    THEN next_batch(stream, items, cursor + 1, calls + 1)
    ELSE LET batches == [j \in 1..items[cursor].nbatches |-> <<cursor, j>>]
         IN [stream |-> [stream EXCEPT !.pending_batches = buffer_batches(batches)],
             cursor |-> cursor + 1, calls |-> calls + 1,
             result |-> BatchResult(Head(batches))]

\* the batches a table registered from collected batches holds, in order
RECURSIVE collected_batches(_, _)
collected_batches(items, i) ==
    IF i > Len(items) THEN <<>>
    ELSE [j \in 1..items[i].nbatches |-> <<i, j>>] \o collected_batches(items, i + 1)

PyStreamIdle == [kind |-> "none", items |-> <<>>, cursor |-> 1, calls |-> 0,
                 streams |-> <<>>]

\* poll_next of stream s of a table registered from a Python iterator: every
\* stream of the table holds the same py_iterator
py_poll_next(s) ==
    /\ pystream.kind = "py_iterator"
    /\ Len(pystream.streams[s].yielded) < MaxPolls
    /\ LET r == next_batch(pystream.streams[s], pystream.items, pystream.cursor,
                           pystream.calls)
       IN pystream' = [pystream EXCEPT
              !.cursor = r.cursor, !.calls = r.calls,
              !.streams[s] = [r.stream EXCEPT !.yielded = Append(@, r.result)]]
    /\ UNCHANGED <<qvars, dvars, svars, wvars, pipe, parsed, lazy, hstage>>

\* poll of stream s of RecordBatchPartitionStream::execute: an iterator over
\* its own clone of the batches (pending_batches holds what is left of it)
batches_poll_next(s) ==
    /\ pystream.kind = "batches"
    /\ Len(pystream.streams[s].yielded) < MaxPolls
    /\ LET stream == pystream.streams[s]
       IN pystream' = [pystream EXCEPT !.streams[s] =
              IF stream.pending_batches # <<>>
              THEN [stream EXCEPT !.pending_batches = Tail(@),
                                  !.yielded = Append(@, BatchResult(Head(stream.pending_batches)))]
              ELSE [stream EXCEPT !.yielded = Append(@, EndResult)]]
    /\ UNCHANGED <<qvars, dvars, svars, wvars, pipe, parsed, lazy, hstage>>

\* ------------------------------------------- FORMAT column names
\* strings are sequences of characters here
UpperChars == {"A", "D", "F", "G", "I", "L", "M", "N", "P", "Q", "T", "V"}
DigitChars == {"1"}
SampleChars == {"s", "_", "A"}
\* let format_patterns = ["GT", "DP", "GQ", "AD", "PL", "VAF", "MIN_DP"]
format_patterns == << <<"G", "T">>, <<"D", "P">>, <<"G", "Q">>, <<"A", "D">>,
                      <<"P", "L">>, <<"V", "A", "F">>, <<"M", "I", "N", "_", "D", "P">> >>
Strings(chars, n) == UNION {[1..k -> chars] : k \in 0..n}
FormatSamples == Strings(SampleChars, MaxSample) \ {<<>>}
FormatNames ==
    {sample \o <<"_">> \o format_patterns[f] :
        sample \in FormatSamples, f \in DOMAIN format_patterns}
    \cup Strings({"s", "_", "A", "1"}, MaxSample + 1)

ends_with(name, suffix) ==
    /\ Len(suffix) <= Len(name)
    /\ SubSeq(name, Len(name) - Len(suffix) + 1, Len(name)) = suffix
strip_suffix(name, suffix) == SubSeq(name, 1, Len(name) - Len(suffix))
\* position of the last ch of name, 0 when there is none
rfind(name, ch) ==
    LET at == {i \in DOMAIN name : name[i] = ch}
    IN IF at = {} THEN 0 ELSE CHOOSE i \in at : \A j \in at : j <= i

NoneParsed == [some |-> FALSE, sample |-> <<>>, format |-> <<>>]
SomeParsed(sample, format) == [some |-> TRUE, sample |-> sample, format |-> format]

\* the loop over format_patterns from pattern i on, then the generic pattern
RECURSIVE parse_format_column_name_from(_, _)
parse_format_column_name_from(name, i) ==
    IF i <= Len(format_patterns)
    THEN LET suffix == <<"_">> \o format_patterns[i]
         IN IF ends_with(name, suffix) /\ strip_suffix(name, suffix) # <<>>
            THEN SomeParsed(strip_suffix(name, suffix), format_patterns[i])
            ELSE parse_format_column_name_from(name, i + 1)
    ELSE LET idx == rfind(name, "_")
             suffix == SubSeq(name, idx + 1, Len(name))
             sample == SubSeq(name, 1, idx - 1)
         IN IF /\ idx # 0
               /\ \A k \in DOMAIN suffix : suffix[k] \in UpperChars \cup DigitChars
               /\ suffix # <<>>
               /\ sample # <<>>
            THEN SomeParsed(sample, suffix)
            ELSE NoneParsed
parse_format_column_name(name) == parse_format_column_name_from(name, 1)

ParsedIdle == [name |-> <<>>, result |-> NoneParsed, phase |-> "idle"]

\* one call of parse_format_column_name
parse_name ==
    /\ parsed.phase = "idle"
    /\ \E name \in FormatNames :
          parsed' = [name |-> name, result |-> parse_format_column_name(name),
                     phase |-> "done"]
    /\ UNCHANGED <<qvars, dvars, svars, wvars, pipe, pystream, lazy, hstage>>

\* ------------------------------------------- lazy count-overlaps results
\* the session's tables by name (LEFT_TABLE, RIGHT_TABLE), and the lazy results handed out so far; a
\* result remembers the inputs of its dispatch only for the comparison
LazyIdle == [tables |-> (LEFT_TABLE :> <<>>) @@ (RIGHT_TABLE :> <<>>),
             results |-> <<>>]

\* range_operation_frame with a count-overlaps operation: both frames are
\* registered under the fixed names, and the returned frame holds a
\* CountOverlapsExec that knows the session and the two names
range_operation_frame(df1, df2) ==
    /\ Len(lazy.results) < MaxDispatch
    /\ lazy' = [tables |-> (LEFT_TABLE :> df1) @@ (RIGHT_TABLE :> df2),
                results |-> Append(lazy.results,
                    [left_table |-> LEFT_TABLE, right_table |-> RIGHT_TABLE,
                     df1 |-> df1, df2 |-> df2, executed |-> FALSE, rows |-> <<>>])]
    /\ UNCHANGED <<qvars, dvars, svars, wvars, pipe, pystream, parsed, hstage>>

\* CountOverlapsExec::execute of result k: get_stream reads
\* session.table(left_table) and session.table(right_table) now
count_overlaps_execute(k) ==
    /\ ~lazy.results[k].executed
    /\ lazy' = [lazy EXCEPT !.results[k].executed = TRUE,
                            !.results[k].rows =
                                get_stream(lazy.tables[lazy.results[k].left_table],
                                           lazy.tables[lazy.results[k].right_table],
                                           DEFAULT_COLUMN_NAMES, DEFAULT_COLUMN_NAMES)]
    /\ UNCHANGED <<qvars, dvars, svars, wvars, pipe, pystream, parsed, hstage>>

\* ------------------------------------------- histogram provider + statistics
\* the quality strings of the two-stage pipeline: up to MaxPos bytes each
StageRows == {[is_null |-> FALSE, value |-> v] :
                 v \in UNION {[1..n -> QualBytes] : n \in 0..MaxPos}} \cup {NullRow}
StageStreams == UNION {[1..n -> {<<r>> : r \in StageRows}] : n \in 0..MaxReads}

\* the batches RoundRobinBatch(target_partitions) hands to output `partition`
partition_batches(batches, assign, partition) ==
    LET mine(i) == assign[i] = partition
        RECURSIVE pick(_)
        pick(i) == IF i > Len(batches) THEN <<>>
                   ELSE (IF mine(i) THEN <<batches[i]>> ELSE <<>>) \o pick(i + 1)
    IN pick(1)

\* the while loop of get_stream over the batches of one partition
RECURSIVE pos_map_of(_, _)
pos_map_of(pos_map, batches) ==
    IF batches = <<>> THEN pos_map
    ELSE pos_map_of(pos_map_add_batch(pos_map, Head(batches), 1), Tail(batches))

\* only the first input partition collected, mutation of stage_input
RECURSIVE stage_input_first_partition(_, _)
stage_input_first_partition(outputs, p) ==
    IF p > Len(outputs) THEN <<>> ELSE outputs[p].rows

\* collect(input) and concat_batches: the rows of every input partition
RECURSIVE stage_input(_, _)
stage_input(outputs, p) ==
    IF p > Len(outputs) THEN <<>>
    ELSE outputs[p].rows \o stage_input(outputs, p + 1)

\* vec![0; 256]
ZeroGroup == [q \in 0..255 |-> 0]

\* the loop over the combined rows: entry[score] += count
RECURSIVE group_rows(_, _, _)
group_rows(groups, rows, i) ==
    IF i > Len(rows) THEN groups
    ELSE LET r == rows[i]
             entry == IF r.pos \in DOMAIN groups THEN groups[r.pos] ELSE ZeroGroup
         IN group_rows([g \in (DOMAIN groups) \cup {r.pos} |->
                           IF g = r.pos THEN [entry EXCEPT ![r.score] = @ + r.count]
                           ELSE groups[g]],
                       rows, i + 1)

\* the loop over groups in the HashMap's order: a row only for Some(stats)
RECURSIVE stats_rows(_, _)
stats_rows(groups, order) ==
    IF order = <<>> THEN <<>>
    ELSE LET st == calculate_histogram_stats(groups[Head(order)])
         IN (IF st.outcome = "row" THEN <<[pos |-> Head(order), stats |-> st]>> ELSE <<>>)
            \o stats_rows(groups, Tail(order))

HStageIdle == [batches |-> <<>>, target_partitions |-> 0, assign |-> <<>>,
               outputs |-> <<>>, result |-> <<>>, phase |-> "idle"]

\* SequenceQualityHistogramExec::execute(partition) -> get_stream: the one batch
\* of a partition
hist_partition(partition) ==
    /\ hstage.phase = "partitions"
    /\ ~hstage.outputs[partition].ran
    /\ LET pos_map == pos_map_of(<<>>, partition_batches(hstage.batches, hstage.assign,
                                                         partition))
       IN \E order \in Orders(DOMAIN pos_map) :
             hstage' = [hstage EXCEPT
                 !.outputs[partition] = [ran |-> TRUE, rows |-> flatten(pos_map, order)]]
    /\ UNCHANGED <<qvars, dvars, svars, wvars, pipe, pystream, parsed, lazy>>

\* QuantileStatsExec::execute once every input partition has been collected
quantile_stats_exec ==
    /\ hstage.phase = "partitions"
    /\ \A p \in DOMAIN hstage.outputs : hstage.outputs[p].ran
    /\ LET groups == group_rows(<<>>, stage_input(hstage.outputs, 1), 1)
       IN \E order \in Orders(DOMAIN groups) :
             hstage' = [hstage EXCEPT !.result = stats_rows(groups, order),
                                      !.phase = "done"]
    /\ UNCHANGED <<qvars, dvars, svars, wvars, pipe, pystream, parsed, lazy>>


PIdle ==
    /\ pipe = PipeIdle
    /\ pystream = PyStreamIdle
    /\ parsed = ParsedIdle
    /\ lazy = LazyIdle
    /\ hstage = HStageIdle

WIdle ==
    /\ wstream = WStreamIdle
    /\ vcf = VcfIdle
    /\ bam = BamIdle

SIdle ==
    /\ hist_exec = HistIdle
    /\ quart = QuartIdle
    /\ warn = WarnIdle
    /\ macc = MergeIdle
    /\ dec = DecIdle

\* ------------------------------------------------------------------- specs
\* a fresh session: the default algorithm, the two inputs registered, no provider
DInit ==
    /\ interval_join_algorithm = Coitrees
    /\ catalog = [n \in TableNames |-> IF n = CountOverlapsTable THEN 0 ELSE n]
    /\ pc = [t \in Threads |-> "idle"]
    /\ req = [t \in Threads |-> NoReq]
    /\ finished = [t \in Threads |-> NoReq]
    /\ ndispatch = 0
    /\ last_writer = NoWriter
    /\ registered = {}
    /\ evicted = {}

QInputs ==
    /\ \E names \in {<<DEFAULT_COLUMN_NAMES, DEFAULT_COLUMN_NAMES>>,
                     <<CustomColumns1, CustomColumns2>>} :
         /\ left_schema = names[1]
         /\ right_schema = names[2]
         /\ left_rows \in Tables(names[1], MaxLeft)
         /\ right_rows \in Tables(names[2], MaxRight)
    /\ filter_op \in FilterOps
    /\ ran = "none"
    /\ out = <<>>

QEmpty ==
    /\ left_schema = DEFAULT_COLUMN_NAMES
    /\ right_schema = DEFAULT_COLUMN_NAMES
    /\ left_rows = <<>>
    /\ right_rows = <<>>
    /\ filter_op = "Weak"
    /\ ran = "none"
    /\ out = <<>>

\* the three queries on every pair of small input tables
QInit == QInputs /\ DInit /\ SIdle /\ WIdle /\ PIdle
QNext == do_overlap \/ do_count_overlaps \/ do_nearest
SpecQuery == QInit /\ [][QNext]_vars

\* dispatches on one session, one at a time
Init == QEmpty /\ DInit /\ PIdle /\ WIdle /\ SIdle
Next ==
    \E t \in Threads :
        \/ \E range_op \in RangeOps, overlap_alg \in OverlapAlgs :
             do_range_operation(t, range_op, overlap_alg, TRUE)
        \/ overlap_sql(t)
        \/ nearest_set_option(t)
        \/ nearest_sql(t)
        \/ deregister_table(t)
        \/ register_table(t)
        \/ count_overlaps_sql(t)
        \/ unsupported_operation(t)
Spec == Init /\ [][Next]_vars

\* dispatches from two threads interleaved on one session
NextThreads ==
    \E t \in Threads :
        \/ \E range_op \in RangeOps, overlap_alg \in OverlapAlgs :
             do_range_operation(t, range_op, overlap_alg, FALSE)
        \/ overlap_sql(t)
        \/ nearest_set_option(t)
        \/ nearest_sql(t)
        \/ deregister_table(t)
        \/ register_table(t)
        \/ count_overlaps_sql(t)
        \/ unsupported_operation(t)
SpecThreads == Init /\ [][NextThreads]_vars

\* one partition of the histogram provider on every small input stream
HInit ==
    /\ QEmpty /\ DInit /\ PIdle /\ WIdle
    /\ \E stream \in QualStreams :
          hist_exec = [HistIdle EXCEPT !.stream = stream, !.phase = "poll"]
    /\ quart = QuartIdle
    /\ warn = WarnIdle
    /\ macc = MergeIdle
    /\ dec = DecIdle
HNext == hist_next_batch \/ hist_emit
SpecHist == HInit /\ [][HNext]_vars

\* every implementation of the per-position statistics on every small histogram
StatInit ==
    /\ QEmpty /\ DInit /\ PIdle /\ WIdle
    /\ hist_exec = HistIdle
    /\ \E hist \in InputHists : quart = [QuartIdle EXCEPT !.hist = hist, !.by = "input"]
    /\ warn = WarnIdle
    /\ macc = MergeIdle
    /\ dec = DecIdle
StatNext ==
    \/ quartiles_evaluate
    \/ compute_base_quality
    \/ quantile_stats_execute
    \/ quality_scores_evaluate
SpecStats == StatInit /\ [][StatNext]_vars

\* both evaluations of base_quality_warn on every small list of positions
WarnInit ==
    /\ QEmpty /\ DInit /\ PIdle /\ WIdle
    /\ hist_exec = HistIdle
    /\ quart = QuartIdle
    /\ \E by \in {"udaf", "base_quality"}, positions \in PositionLists :
          warn = [by |-> by, positions |-> positions, todo |-> DOMAIN positions,
                  tag |-> "pass"]
    /\ macc = MergeIdle
    /\ dec = DecIdle
WarnNext == udaf_evaluate_position \/ finalize_position
SpecWarn == WarnInit /\ [][WarnNext]_vars

\* three partial accumulators, each fed one row through update_batch, then merged
MergeInit ==
    /\ QEmpty /\ DInit /\ PIdle /\ WIdle
    /\ hist_exec = HistIdle
    /\ quart = QuartIdle
    /\ warn = WarnIdle
    /\ \E kind \in {"quartiles", "scores"}, rows \in [Parts -> ValidRows] :
          macc = [MergeIdle EXCEPT
                     !.kind = kind,
                     !.rows = rows,
                     !.parts = [x \in Parts |->
                                   AccUpdate(kind, NewAccumulator(kind), <<rows[x]>>)],
                     !.phase = "partial"]
    /\ dec = DecIdle
MergeNext == merge_flat \/ merge_nested \/ merge_pair
SpecMerge == MergeInit /\ [][MergeNext]_vars

\* every small quality column through each of the three decoding paths
DecodeInit ==
    /\ QEmpty /\ DInit /\ PIdle /\ WIdle
    /\ quart = QuartIdle
    /\ warn = WarnIdle
    /\ macc = MergeIdle
    /\ \E stream \in QualStreams :
          \/ /\ hist_exec = [HistIdle EXCEPT !.stream = stream, !.phase = "poll"]
             /\ dec = DecIdle
          \/ /\ hist_exec = HistIdle
             /\ \E path \in {"quality_udaf", "quality"} :
                   dec = [DecIdle EXCEPT !.path = path, !.stream = stream,
                                         !.status = "running"]
DecodeNext == hist_next_batch \/ hist_emit \/ quartiles_update_batch \/ do_compute_batch
SpecDecode == DecodeInit /\ [][DecodeNext]_vars

\* every small write stream consumed by consume_write_stream
WStreamInit ==
    /\ QEmpty /\ DInit /\ PIdle /\ SIdle
    /\ vcf = VcfIdle
    /\ bam = BamIdle
    /\ \E stream \in WriteStreams :
          wstream = [WStreamIdle EXCEPT !.stream = stream, !.status = "running"]
WStreamNext == consume_next_batch \/ consume_return
SpecWriteStream == WStreamInit /\ [][WStreamNext]_vars

\* every small schema and metadata handed to apply_vcf_metadata_to_schema
VcfInit ==
    /\ QEmpty /\ DInit /\ PIdle /\ SIdle
    /\ wstream = WStreamIdle
    /\ bam = BamIdle
    /\ \E schema \in VcfSchemas, info_meta \in InfoMetas, format_meta \in FormatMetas,
          sample_names \in SampleNames :
          vcf = [VcfIdle EXCEPT !.phase = "call", !.schema = schema,
                                !.info_meta = info_meta, !.format_meta = format_meta,
                                !.sample_names = sample_names]
VcfNext == apply_vcf_metadata
SpecVcf == VcfInit /\ [][VcfNext]_vars

\* every small schema handed to the BAM/CRAM writer
BamInit ==
    /\ QEmpty /\ DInit /\ PIdle /\ SIdle
    /\ wstream = WStreamIdle
    /\ vcf = VcfIdle
    /\ \E schema \in BamSchemas, tag_fields \in TagFieldOptions :
          bam = [BamIdle EXCEPT !.phase = "call", !.schema = schema,
                                !.tag_fields = tag_fields]
BamNext == bam_tag_schema
SpecBam == BamInit /\ [][BamNext]_vars

\* a schema-override stream over every small override schema
OverrideInit ==
    /\ QEmpty /\ DInit /\ SIdle /\ WIdle
    /\ pystream = PyStreamIdle
    /\ parsed = ParsedIdle
    /\ lazy = LazyIdle
    /\ hstage = HStageIdle
    /\ \E schema \in OverrideSchemas :
          pipe = [PipeIdle EXCEPT !.op = "schema_override", !.schema = schema]
OverrideNext == override_poll_next
SpecOverride == OverrideInit /\ [][OverrideNext]_vars

\* the four operators over an upstream stream that can yield an Err
ErrorsInit ==
    /\ QEmpty /\ DInit
    /\ quart = QuartIdle /\ warn = WarnIdle /\ macc = MergeIdle /\ dec = DecIdle
    /\ vcf = VcfIdle /\ bam = BamIdle
    /\ pystream = PyStreamIdle /\ parsed = ParsedIdle /\ lazy = LazyIdle
    /\ hstage = HStageIdle
    /\ \/ /\ \E schema \in OverrideSchemas :
                pipe = [PipeIdle EXCEPT !.op = "schema_override", !.schema = schema]
          /\ hist_exec = HistIdle /\ wstream = WStreamIdle
       \/ /\ \E lrows \in Tables(DEFAULT_COLUMN_NAMES, MaxLeft) :
                pipe = [PipeIdle EXCEPT !.op = "count_overlaps", !.lrows = lrows]
          /\ hist_exec = HistIdle /\ wstream = WStreamIdle
       \/ /\ \E stream \in QualStreams, then_err \in BOOLEAN :
                hist_exec = [HistIdle EXCEPT !.stream = stream, !.then_err = then_err,
                                             !.phase = "poll"]
          /\ pipe = PipeIdle /\ wstream = WStreamIdle
       \/ /\ \E stream \in WriteStreams :
                wstream = [WStreamIdle EXCEPT !.stream = stream, !.status = "running"]
          /\ pipe = PipeIdle /\ hist_exec = HistIdle
ErrorsNext ==
    \/ override_poll_next
    \/ count_overlaps_poll_next
    \/ hist_next_batch
    \/ hist_emit
    \/ hist_error
    \/ consume_next_batch
    \/ consume_return
SpecErrors == ErrorsInit /\ [][ErrorsNext]_vars

\* one stream executed on a table registered from a Python iterator
PyInit ==
    /\ QEmpty /\ DInit /\ SIdle /\ WIdle
    /\ pipe = PipeIdle /\ parsed = ParsedIdle /\ lazy = LazyIdle /\ hstage = HStageIdle
    /\ \E items \in PyIterators :
          pystream = [PyStreamIdle EXCEPT !.kind = "py_iterator", !.items = items,
                                          !.streams = <<NewPyStream>>]
PyNext == \E s \in DOMAIN pystream.streams : py_poll_next(s)
SpecPyStream == PyInit /\ [][PyNext]_vars

\* execute() called twice on one registered table, of either kind
PySharedInit ==
    /\ QEmpty /\ DInit /\ SIdle /\ WIdle
    /\ pipe = PipeIdle /\ parsed = ParsedIdle /\ lazy = LazyIdle /\ hstage = HStageIdle
    /\ \E items \in {it \in PyIterators : \A i \in DOMAIN it : ~it[i].raises} :
          \/ pystream = [PyStreamIdle EXCEPT !.kind = "py_iterator", !.items = items,
                                             !.streams = <<NewPyStream, NewPyStream>>]
          \/ LET own == [NewPyStream EXCEPT !.pending_batches = collected_batches(items, 1)]
             IN pystream = [PyStreamIdle EXCEPT !.kind = "batches", !.items = items,
                                                !.streams = <<own, own>>]
PySharedNext ==
    \E s \in DOMAIN pystream.streams : py_poll_next(s) \/ batches_poll_next(s)
SpecPyShared == PySharedInit /\ [][PySharedNext]_vars

\* parse_format_column_name on every column name of the bounded alphabet
ParseInit == QEmpty /\ DInit /\ SIdle /\ WIdle /\ PIdle
ParseNext == parse_name
SpecParse == ParseInit /\ [][ParseNext]_vars

\* count-overlaps dispatches on one session, each result executed later
LazyInit == QEmpty /\ DInit /\ SIdle /\ WIdle /\ PIdle
LazyNext ==
    \/ \E df1 \in Tables(DEFAULT_COLUMN_NAMES, MaxLeft),
          df2 \in Tables(DEFAULT_COLUMN_NAMES, MaxRight) : range_operation_frame(df1, df2)
    \/ \E k \in DOMAIN lazy.results : count_overlaps_execute(k)
SpecLazy == LazyInit /\ [][LazyNext]_vars

\* the histogram provider over any number of partitions, then the statistics
HStageInit ==
    /\ QEmpty /\ DInit /\ SIdle /\ WIdle
    /\ pipe = PipeIdle /\ pystream = PyStreamIdle /\ parsed = ParsedIdle /\ lazy = LazyIdle
    /\ \E batches \in StageStreams, n \in 1..MaxPartitions :
          \E assign \in [DOMAIN batches -> 1..n] :
             hstage = [batches |-> batches, target_partitions |-> n, assign |-> assign,
                       outputs |-> [p \in 1..n |-> [ran |-> FALSE, rows |-> <<>>]],
                       result |-> <<>>, phase |-> "partitions"]
HStageNext ==
    \/ \E partition \in DOMAIN hstage.outputs : hist_partition(partition)
    \/ quantile_stats_exec
SpecHStage == HStageInit /\ [][HStageNext]_vars

\* ------------------------------------------------- claims, query level
\* the filter-op predicate of the data model, on interval records (contig, start, end)
OverlapsUnder(op, l, r) ==
    IF op = "Weak" THEN l[3] >= r[2] /\ l[2] <= r[3]
    ELSE l[3] > r[2] /\ l[2] < r[3]

\* how many rows of a table carry the interval record v
Mult(rows, schema, v) == Cardinality({i \in DOMAIN rows : Triple(rows[i], schema) = v})

ExpectedPairs(l, r) ==
    IF l[1] = r[1] /\ OverlapsUnder(filter_op, l, r)
    THEN Mult(left_rows, left_schema, l) * Mult(right_rows, right_schema, r)
    ELSE 0

\* C1: the overlap query returns one row per pair (l, r) of input rows with equal
\* contig and the filter predicate true, duplicates included, and no other row.
C1_OverlapExactPairs ==
    ran = "overlap" =>
        /\ \A l \in RowVals, r \in RowVals :
              Occ(out, [left |-> l, right |-> r]) = ExpectedPairs(l, r)
        /\ \A k \in DOMAIN out : out[k].left \in RowVals /\ out[k].right \in RowVals

\* custom column names, Weak, a duplicated right row touching the left row
C1_Witness ==
    /\ ran = "overlap"
    /\ left_schema = CustomColumns1
    /\ filter_op = "Weak"
    /\ Len(right_rows) = 2 /\ right_rows[1] = right_rows[2]
    /\ Len(out) = 2 /\ out[1] = out[2]
    /\ out[1].left[3] = out[1].right[2]

\* the count the claim asks for: left intervals on r's contig overlapping r
ExpectedCount(op, r) ==
    Cardinality({i \in DOMAIN left_rows :
        /\ Triple(left_rows[i], left_schema)[1] = r[1]
        /\ OverlapsUnder(op, Triple(left_rows[i], left_schema), r)})

\* C2: count-overlaps emits one row per right row, in right-input order, the row
\* unchanged, with count = the left intervals on its contig overlapping it under
\* the requested filter op (Weak counts touching intervals).
C2_CountPerFilterOp ==
    ran = "count_overlaps" =>
        /\ Len(out) = Len(right_rows)
        /\ \A i \in DOMAIN out :
              /\ out[i].row = right_rows[i]
              /\ out[i].count = ExpectedCount(filter_op, Triple(right_rows[i], right_schema))

\* C3: under Weak the overlap row count equals the sum of the appended counts.
C3_OverlapRowsEqualCountSum ==
    (ran = "overlap" /\ filter_op = "Weak") =>
        LET counts == get_stream(left_rows, right_rows, left_schema, right_schema)
        IN Len(out) = SumSeq([i \in DOMAIN counts |-> counts[i].count])

\* C4: the distance of a returned pair is 0 if the intervals overlap under the
\* filter op, b.start - a.end if b is strictly right of a, a.start - b.end if b is
\* strictly left of a, and never negative.
C4_NearestDistance ==
    ran = "nearest" =>
        \A k \in DOMAIN out :
            LET a == out[k].left
                b == out[k].right
                d == out[k].distance
            IN /\ d >= 0
               /\ OverlapsUnder(filter_op, a, b) => d = 0
               /\ b[2] > a[3] => d = b[2] - a[3]
               /\ b[3] < a[2] => d = a[2] - b[3]

\* a neighbour strictly to the left at positive distance, and an overlapping one
C4_Witness ==
    /\ ran = "nearest"
    /\ \E k \in DOMAIN out :
          /\ out[k].right[3] < out[k].left[2]
          /\ out[k].distance = out[k].left[2] - out[k].right[3]
          /\ out[k].distance > 0
    /\ \E k \in DOMAIN out : OverlapsUnder(filter_op, out[k].left, out[k].right)

\* ---------------------------------------------- claims, dispatch level
Done(t) == finished[t].id # 0

StartsReserved(t) ==
    /\ ndispatch' = ndispatch + 1
    /\ \/ req'[t].id = ndispatch' /\ req'[t].overlap_alg = CoitreesNearest
       \/ finished'[t].id = ndispatch' /\ finished'[t].overlap_alg = CoitreesNearest

\* C6: a dispatch whose overlap_alg is the reserved nearest tag is rejected, for
\* every range_op: the session's algorithm keeps its value, no table is
\* registered and no query is issued.
C6_ReservedTagRejected ==
    [][\A t \in Threads :
          StartsReserved(t) =>
              /\ interval_join_algorithm' = interval_join_algorithm
              /\ catalog' = catalog /\ registered' = registered
              /\ pc'[t] = "idle" /\ req'[t] = NoReq
              /\ finished'[t].result = "reserved_tag_panic"
              /\ finished'[t].alg_at_query = None]_vars

\* a rejected dispatch on a session whose algorithm an earlier dispatch had set
C6_Witness ==
    \E t \in Threads :
        /\ Done(t) /\ finished[t].result = "reserved_tag_panic"
        /\ finished[t].range_op = "Merge"
        /\ interval_join_algorithm = "lapper"
        /\ catalog[CountOverlapsTable] = 0

\* the unary operators of the range_op list
UnaryOps == {"Merge", "Cluster", "Complement", "Subtract"}

\* a step taken by a dispatch of a unary operator on thread t
UnaryStep(t) ==
    /\ pc'[t] # pc[t] \/ req'[t] # req[t] \/ finished'[t] # finished[t]
    /\ \/ req[t].range_op \in UnaryOps
       \/ req'[t].range_op \in UnaryOps
       \/ finished'[t] # finished[t] /\ finished'[t].range_op \in UnaryOps

\* C7: a dispatch of a unary operator leaves the session's algorithm as it was.
C7_UnaryLeavesAlgorithm ==
    [][\A t \in Threads :
          UnaryStep(t) => interval_join_algorithm' = interval_join_algorithm]_vars

\* C8: every dispatch registers its provider under a name no other dispatch uses,
\* no dispatch deregisters or replaces another's provider, and each dispatch's
\* query reads its own provider.
C8_UniqueProviderNames ==
    /\ \A a \in registered, b \in registered : a.id # b.id => a.name # b.name
    /\ evicted = {}
    /\ \A t \in Threads :
         (Done(t) /\ finished[t].range_op \in {"CountOverlapsNaive", "Coverage"}
            /\ finished[t].overlap_alg # CoitreesNearest)
             => finished[t].result = "lazy" /\ finished[t].provider = finished[t].id

\* C9: an overlap query is issued under the nearest variant exactly through an
\* interleaving: the tag it sees was written, after its own dispatch configured
\* the session, by a Nearest dispatch on another thread.
C9_NearestTagByInterleaving ==
    \A t \in Threads :
        (Done(t) /\ finished[t].range_op = "Overlap" /\ finished[t].result = "lazy"
           /\ finished[t].alg_at_query = CoitreesNearest)
            => /\ finished[t].writer_at_query.thread # t
               /\ finished[t].writer_at_query.id # finished[t].id
               /\ finished[t].writer_at_query.range_op = "Nearest"

\* the overlap query issued while the session holds the nearest variant
C9_Witness ==
    \E t \in Threads :
        /\ Done(t) /\ finished[t].range_op = "Overlap" /\ finished[t].result = "lazy"
        /\ finished[t].overlap_alg # CoitreesNearest
        /\ finished[t].alg_at_query = CoitreesNearest

\* C10: do_range_operation returns a lazy result for each of the eight range_op
\* values; none ends in the "Unsupported operation" abort.
C10_EveryRangeOpLazy ==
    \A t \in Threads :
        (Done(t) /\ finished[t].overlap_alg # CoitreesNearest)
            => finished[t].result = "lazy"

\* ------------------------------------------- claims, histogram provider
\* non-null input strings whose byte at 0-based offset pos is score + 33
ExpectedHistCount(pos, score) ==
    Cardinality({i \in DOMAIN hist_exec.seen :
        LET r == hist_exec.seen[i][1]
        IN ~r.is_null /\ Len(r.value) > pos /\ r.value[pos + 1] = score + 33})

\* C11: a partition emits exactly one batch, only once its input is exhausted; a
\* (pos, score) pair appears at most once, every count is positive and equals the
\* number of non-null input strings whose byte at offset pos is score + 33.
C11_HistogramOneBatch ==
    /\ Len(hist_exec.emitted) <= 1
    /\ hist_exec.phase = "done" => Len(hist_exec.emitted) = 1
    /\ hist_exec.emitted # <<>> =>
         /\ hist_exec.stream = <<>>
         /\ LET batch == hist_exec.emitted[1]
            IN /\ \A k \in DOMAIN batch :
                     /\ batch[k].count > 0
                     /\ batch[k].score \in 0..93
                     /\ batch[k].pos \in 0..(MaxQual - 1)
               /\ \A pos \in 0..(MaxQual - 1), score \in 0..93 :
                     LET hits == {k \in DOMAIN batch :
                                     batch[k].pos = pos /\ batch[k].score = score}
                     IN IF ExpectedHistCount(pos, score) = 0 THEN hits = {}
                        ELSE /\ Cardinality(hits) = 1
                             /\ \A k \in hits : batch[k].count = ExpectedHistCount(pos, score)

\* two strings that agree on a byte are counted together in the one batch
C11_Witness ==
    /\ hist_exec.phase = "done"
    /\ Len(hist_exec.seen) = 2
    /\ \E k \in DOMAIN hist_exec.emitted[1] :
          hist_exec.emitted[1][k].count = 2 /\ hist_exec.emitted[1][k].score = 93

\* ---------------------------------------- claims, per-position statistics
\* the linear-interpolation percentile of a sorted sequence x for q = k/4:
\* x[r] + (x[r+1] - x[r]) * d with rank = q * (N - 1), r = floor(rank), d = rank - r
Percentile(x, k) ==
    LET rank4 == k * (Len(x) - 1)
        r == rank4 \div 4
        d4 == rank4 % 4
    IN IF d4 = 0 THEN 8 * x[r + 1]
       ELSE 8 * x[r + 1] + (x[r + 2] - x[r + 1]) * 2 * d4

QuartN == HistTotal(quart.hist)
QuartDone == quart.by \notin {"none", "input"}

\* C12: for N >= 1 each implementation returns the linear-interpolation
\* percentile of the expanded sorted scores for q = 0.25, 0.5, 0.75; for N = 1
\* all five statistics equal the single score.
C12_LinearInterpolationQuartiles ==
    (QuartDone /\ QuartN >= 1) =>
        LET x == sorted_values(quart.hist, buckets(quart.hist))
        IN /\ quart.stats.outcome = "row"
           /\ quart.stats.q1 = Percentile(x, 1)
           /\ quart.stats.median = Percentile(x, 2)
           /\ quart.stats.q3 = Percentile(x, 3)
           /\ QuartN = 1 =>
                 /\ quart.stats.lower = 8 * x[1]
                 /\ quart.stats.upper = 8 * x[1]

PositionMedian(hist) == Percentile(sorted_values(hist, buckets(hist)), 2)

ExpectedWarn(positions) ==
    IF \E p \in DOMAIN positions : PositionMedian(positions[p]) <= 8 * 20 THEN "fail"
    ELSE IF \E p \in DOMAIN positions : PositionMedian(positions[p]) <= 8 * 25 THEN "warn"
    ELSE "pass"

TagRank(tag) == CASE tag = "pass" -> 0 [] tag = "warn" -> 1 [] tag = "fail" -> 2

\* C13: the tag is fail if any position's median is <= 20, else warn if any is
\* <= 25, else pass; during the scan it only moves pass -> warn -> fail, so the
\* result does not depend on the order of the positions.
C13_WarnTag ==
    /\ []((warn.by # "none" /\ warn.todo = {}) => warn.tag = ExpectedWarn(warn.positions))
    /\ [][TagRank(warn'.tag) >= TagRank(warn.tag)]_vars

\* ------------------------------------------ claims, partial aggregation
\* the pointwise sum of the per-position histograms of the three partial states,
\* over as many positions as the longest of them covers
LongestPart == CHOOSE n \in 0..MaxQual :
                  /\ \A x \in Parts : Len(macc.parts[x]) <= n
                  /\ \E x \in Parts : Len(macc.parts[x]) = n

PointwiseSum ==
    [p \in 1..LongestPart |->
        [dig \in 0..93 |->
            LET at(x) == IF p <= Len(macc.parts[x]) THEN macc.parts[x][p][dig] ELSE 0
            IN at("A") + at("B") + at("C")]]

\* C14: merging quartile-accumulator states in any order and any grouping gives
\* the same per-position histograms and the same evaluate output, also when the
\* states cover different numbers of positions.
C14_MergeOrderIndependent ==
    (macc.kind = "quartiles" /\ macc.phase = "merged" /\ macc.how[1] \in {"flat", "nested"})
        => /\ macc.merged = PointwiseSum
           /\ macc.output = evaluate(PointwiseSum)

\* an empty accumulator receives, nested, the states of two that cover a position
C14_Witness ==
    /\ macc.kind = "quartiles" /\ macc.phase = "merged" /\ macc.how[1] = "nested"
    /\ macc.parts[macc.how[2][1]] = <<>>
    /\ Len(macc.parts[macc.how[2][2]]) = 1
    /\ Len(macc.parts[macc.how[2][3]]) = 1
    /\ \E dig \in 0..93 : macc.merged[1][dig] = 2

\* the per-position histograms an accumulator of either kind holds
AccHistograms(kind, acc) ==
    IF kind = "quartiles" THEN [p \in DOMAIN acc |-> acc[p]]
    ELSE [p \in {q + 1 : q \in DOMAIN acc} |-> ScoreHist(acc[p - 1])]

\* C18: serialising A with state() and feeding it to B.merge_batch leaves B with
\* the histogram and the evaluate output of a single accumulator that received
\* the rows of both through update_batch.
C18_StateMergeEqualsSingle ==
    (macc.phase = "merged" /\ macc.how[1] = "pair") =>
        LET single == AccUpdate(macc.kind, NewAccumulator(macc.kind),
                                <<macc.rows["A"], macc.rows["B"]>>)
        IN /\ AccHistograms(macc.kind, macc.merged) = AccHistograms(macc.kind, single)
           /\ macc.output = AccEvaluate(macc.kind, single)

\* ------------------------------------------------- claims, decoding
\* strings among the batches `seen` whose byte at 0-based offset pos is slot + 33
SlotHits(seen, pos, slot) ==
    Cardinality({i \in DOMAIN seen :
        LET r == seen[i][1]
        IN ~r.is_null /\ Len(r.value) > pos /\ r.value[pos + 1] = slot + PhredOffset})

\* the count a decoding path holds for (pos, slot)
HistogramCount(pos, slot) ==
    IF pos \in DOMAIN hist_exec.pos_map THEN hist_exec.pos_map[pos][slot] ELSE 0
DecCount(pos, slot) ==
    IF dec.path = "quality_udaf"
    THEN IF pos + 1 \in DOMAIN dec.hist THEN dec.hist[pos + 1][slot] ELSE 0
    ELSE IF pos \in DOMAIN dec.hist THEN dec.hist[pos][slot] ELSE 0

\* C20: in every decoding path a byte below 33 is dropped without aborting the
\* aggregation, bytes 33..126 increment slot byte - 33, and no byte indexes
\* outside the 94 slots.
C20_DecodeDropsLowBytes ==
    /\ hist_exec.phase # "idle" =>
          \A pos \in 0..(MaxQual - 1), slot \in 0..(NumSlots - 1) :
              HistogramCount(pos, slot) = SlotHits(hist_exec.seen, pos, slot)
    /\ dec.path # "none" =>
          /\ dec.status # "panic"
          /\ \A pos \in 0..(MaxQual - 1), slot \in 0..(NumSlots - 1) :
                DecCount(pos, slot) = SlotHits(dec.seen, pos, slot)

\* ------------------------------------------------- claims, write path
\* the sum of every non-null value of a `count` column
RECURSIVE CountSum(_)
CountSum(c) == IF c = <<>> THEN 0
               ELSE (IF Head(c).is_null THEN 0 ELSE Head(c).value) + CountSum(Tail(c))
RECURSIVE ClaimedTotal(_)
ClaimedTotal(batches) ==
    IF batches = <<>> THEN 0
    ELSE (IF Head(batches).count_type # "absent" THEN CountSum(Head(batches).count)
          ELSE Head(batches).num_rows) + ClaimedTotal(Tail(batches))

\* C15: consume_write_stream returns the sum of all values of the `count`
\* column over all batches (every row, every batch); a batch without a `count`
\* column adds its num_rows.
C15_SumOfAllCounts ==
    wstream.status = "ok" => wstream.total_rows = ClaimedTotal(wstream.seen)

\* the entries "number", "type", "description" of a metadata value, as the
\* Number/Type/Description of a VCF header line
HeaderMetadata(meta_value) ==
    IF meta_value.is_object
    THEN {<<"VCF_FIELD_NUMBER_KEY", meta_value.number.text>>,
          <<"VCF_FIELD_TYPE_KEY", meta_value.type.text>>,
          <<"VCF_FIELD_DESCRIPTION_KEY", meta_value.description.text>>}
    ELSE {}
Listed(list, x) == \E i \in DOMAIN list : list[i] = x
TypeShape(data_type) ==
    [kind |-> data_type.kind,
     values |-> [i \in DOMAIN data_type.values |-> data_type.values[i].name]]

\* name, position and data type of every top-level field are kept
VcfFieldsKept ==
    /\ Len(vcf.result.new_schema) = Len(vcf.schema)
    /\ \A i \in DOMAIN vcf.schema :
          /\ vcf.result.new_schema[i].name = vcf.schema[i].name
          /\ TypeShape(vcf.result.new_schema[i].data_type) = TypeShape(vcf.schema[i].data_type)
\* core columns are neither annotated nor listed
VcfCoreUntouched ==
    \A i \in DOMAIN vcf.schema :
        vcf.schema[i].name \in VcfCoreColumns =>
            /\ vcf.result.new_schema[i] = vcf.schema[i]
            /\ ~Listed(vcf.result.info_fields, vcf.schema[i].name)
\* a column named in the INFO metadata is an INFO field
VcfInfoClass ==
    \A i \in DOMAIN vcf.schema :
        (vcf.schema[i].name \notin VcfCoreColumns /\ vcf.schema[i].name \in DOMAIN vcf.info_meta)
            => Listed(vcf.result.info_fields, vcf.schema[i].name)
\* the declared format ids for which the column is "{sample}_{format_id}"
MatchingFormatIds(name) ==
    {format_id \in DOMAIN vcf.format_meta :
        \E j \in DOMAIN vcf.sample_names : name = vcf.sample_names[j] \o "_" \o format_id}
\* otherwise "{sample}_{format_id}" is a FORMAT field with that id's metadata
\* (with the metadata of one of the ids when several ids fit the name)
VcfFormatClass ==
    \A i \in DOMAIN vcf.schema :
        (vcf.schema[i].name \notin VcfCoreColumns /\ vcf.schema[i].name \notin DOMAIN vcf.info_meta)
            => /\ ~Listed(vcf.result.info_fields, vcf.schema[i].name)
               /\ MatchingFormatIds(vcf.schema[i].name) # {} =>
                     \E format_id \in MatchingFormatIds(vcf.schema[i].name) :
                        /\ Listed(vcf.result.format_fields, format_id)
                        /\ vcf.result.new_schema[i].metadata
                              = HeaderMetadata(vcf.format_meta[format_id])
VcfFormatIdsDistinct ==
    \A i, j \in DOMAIN vcf.result.format_fields :
        vcf.result.format_fields[i] = vcf.result.format_fields[j] => i = j

\* C16: apply_vcf_metadata_to_schema keeps every top-level field's name,
\* position and data type; core columns are never annotated nor listed; a
\* column named in the INFO metadata is an INFO field; otherwise a column
\* "{sample}_{format_id}" of a declared sample and format id is a FORMAT field
\* with that id's Number/Type/Description; the format-id list has no duplicates.
C16_VcfColumnClasses ==
    vcf.phase = "done" =>
        /\ VcfFieldsKept
        /\ VcfCoreUntouched
        /\ VcfInfoClass
        /\ VcfFormatClass
        /\ VcfFormatIdsDistinct

\* a BAM/CRAM write whose tag_fields were not supplied has built its schema
BamAutoDone == bam.phase = "done" /\ ~bam.tag_fields.some
\* core columns, field order and field count are unchanged
BamLayoutKept ==
    /\ Len(bam.schema_with_metadata) = Len(bam.schema)
    /\ \A i \in DOMAIN bam.schema :
          /\ bam.schema_with_metadata[i].name = bam.schema[i].name
          /\ bam.schema_with_metadata[i].data_type = bam.schema[i].data_type
          /\ bam.schema[i].name \in BamCoreColumns =>
                bam.schema_with_metadata[i] = bam.schema[i]
\* integers i, floats f, strings Z, lists B, any other type one of the four
ClassTagType(data_type) ==
    IF data_type \in IntTypes THEN "i"
    ELSE IF data_type \in {"Float16", "Float32", "Float64"} THEN "f"
    ELSE IF data_type \in {"Utf8", "LargeUtf8"} THEN "Z"
    ELSE IF data_type \in {"List", "LargeList", "FixedSizeList"} THEN "B"
    ELSE "Z"
\* a non-core column carries a tag type; one already present is kept, otherwise
\* it is the type of the column's class of Arrow types
BamTagTypes ==
    \A i \in DOMAIN bam.schema :
        bam.schema[i].name \notin BamCoreColumns =>
            /\ bam.schema_with_metadata[i].tag_type.some
            /\ bam.schema[i].tag_type.some =>
                  bam.schema_with_metadata[i].tag_type = bam.schema[i].tag_type
            /\ ~bam.schema[i].tag_type.some =>
                  bam.schema_with_metadata[i].tag_type.value
                     = <<ClassTagType(bam.schema[i].data_type)>>

\* C17: with tag_fields not supplied every non-core column is annotated with a
\* SAM tag type chosen from its Arrow type (integers i, floats f, strings Z,
\* lists B), a tag type already present is kept, and core columns, field order
\* and field count are unchanged.
C17_TagTypeByClass == BamAutoDone => (BamLayoutKept /\ BamTagTypes)

\* ------------------------------------------------- claims, stream operators
\* C21: every batch the schema-override stream emits carries the override
\* schema, the schema its schema() declares, also when a column cannot be cast.
C21_EmittedSchemaIsOverride ==
    pipe.op = "schema_override" =>
        \A i \in DOMAIN pipe.output :
            pipe.output[i].kind = "ok" => pipe.output[i].batch.schema = pipe.schema

\* some column of the batch differs from its target field and cannot be cast
CastFails(batch, schema) ==
    \E i \in DOMAIN batch.columns :
        /\ i \in DOMAIN schema.fields
        /\ ~can_cast_types(batch.columns[i].data_type, schema.fields[i].data_type)

\* C22: the schema-override stream never introduces an error: every Ok input
\* batch gives exactly one Ok batch at the same position, and that batch is the
\* unmodified input batch when a cast failed or the rebuilt batch was rejected.
C22_OverrideNeverFails ==
    pipe.op = "schema_override" =>
        /\ Len(pipe.output) = Len(pipe.input)
        /\ \A i \in DOMAIN pipe.input :
              pipe.input[i].kind = "ok" =>
                 /\ pipe.output[i].kind = "ok"
                 /\ \/ pipe.output[i].batch = pipe.input[i].batch
                    \/ /\ pipe.output[i].batch.schema = pipe.schema
                       /\ try_new_ok(pipe.schema, pipe.output[i].batch.columns)
                 /\ CastFails(pipe.input[i].batch, pipe.schema) =>
                       pipe.output[i].batch = pipe.input[i].batch
C22_Witness ==
    /\ pipe.op = "schema_override"
    /\ \E i \in DOMAIN pipe.input :
          /\ pipe.input[i].kind = "ok"
          /\ CastFails(pipe.input[i].batch, pipe.schema)
          /\ pipe.output[i] = pipe.input[i]

\* the schema-override and count-overlaps streams forward an Err in place
ErrForwardedInPlace ==
    pipe.op # "none" =>
        /\ Len(pipe.output) = Len(pipe.input)
        /\ \A i \in DOMAIN pipe.input :
              pipe.input[i].kind = "err" => pipe.output[i] = pipe.input[i]
\* the histogram stream ends with the Err and emits no histogram batch
HistEndsWithErr ==
    /\ hist_exec.then_err => hist_exec.phase # "done"
    /\ hist_exec.phase = "failed" =>
          (hist_exec.error = "upstream" /\ hist_exec.emitted = <<>>)
\* consume_write_stream answers an Err item with Err, not with a row total
ConsumeReturnsErr ==
    (wstream.status = "running" /\ wstream.stream # <<>> /\ Head(wstream.stream).is_err)
        => wstream'.status = "err"

\* C23: an error item of an upstream stream is surfaced unchanged and never
\* replaced by data: schema-override and count-overlaps forward it at the same
\* position, the histogram stream ends with it without a histogram batch, and
\* consume_write_stream returns it instead of a partial row total.
C23_UpstreamErrorSurfaced ==
    /\ [](ErrForwardedInPlace /\ HistEndsWithErr)
    /\ [][ConsumeReturnsErr]_vars
C23_Witness ==
    /\ pipe.op = "count_overlaps"
    /\ Len(pipe.output) = 2
    /\ pipe.output[1].kind = "ok" /\ pipe.output[1].batch # <<>>
    /\ pipe.output[2].kind = "err"

\* ------------------------------------------------- claims, Python iterator
\* the batches among what stream s has returned, in the order returned
YieldedBatches(s) ==
    LET is_batch(r) == r.kind = "batch"
        kept == SelectSeq(pystream.streams[s].yielded, is_batch)
    IN [k \in DOMAIN kept |-> kept[k].id]
ReturnedEnd(s) ==
    \E k \in DOMAIN pystream.streams[s].yielded : pystream.streams[s].yielded[k].kind = "end"
IsPrefix(a, b) == Len(a) <= Len(b) /\ \A k \in DOMAIN a : a[k] = b[k]

\* every batch exactly once, in iterator order and batch order; all of them
\* once end-of-stream was returned
PyBatchesInOrder ==
    pystream.kind = "py_iterator" =>
        /\ IsPrefix(YieldedBatches(1), collected_batches(pystream.items, 1))
        /\ ReturnedEnd(1) => YieldedBatches(1) = collected_batches(pystream.items, 1)
\* buffered batches come before the next call of __next__, and no call of it
\* follows StopIteration
PyIteratorCalls ==
    (pystream.streams[1].pending_batches # <<>> \/ pystream.streams[1].exhausted)
        => /\ pystream'.calls = pystream.calls
           /\ pystream.streams[1].exhausted =>
                 pystream'.streams[1].yielded
                    = Append(pystream.streams[1].yielded, EndResult)

\* C24: PythonBatchStream yields every record batch of every item exactly
\* once, in iterator order and batch order; buffered batches of one item are
\* returned before the iterator is asked again, items with zero batches are
\* skipped, and after StopIteration every poll returns end-of-stream without
\* calling the iterator.
C24_PyStreamYieldsAllInOrder == []PyBatchesInOrder /\ [][PyIteratorCalls]_vars
C24_Witness ==
    /\ pystream.kind = "py_iterator"
    /\ Len(pystream.items) = 2
    /\ pystream.items[1].nbatches = 0 /\ ~pystream.items[1].raises
    /\ YieldedBatches(1) = <<<<2, 1>>, <<2, 2>>>>
    /\ pystream.calls = 3
    /\ Len(pystream.streams[1].yielded) = 4

\* C27: every execute() on a table registered from a Python iterator yields the
\* full batch sequence, as on a table registered from collected batches: two
\* streams of one table, polled in any interleaving, each see every batch.
C27_EachStreamSeesAllBatches ==
    \A s \in DOMAIN pystream.streams :
        ReturnedEnd(s) => YieldedBatches(s) = collected_batches(pystream.items, 1)

\* ------------------------------------------------- claims, FORMAT column names
\* name is some non-empty sample, "_" and a non-empty upper-case/digit suffix
HasSampleAndSuffix(name) ==
    \E idx \in DOMAIN name :
        /\ name[idx] = "_"
        /\ idx > 1 /\ idx < Len(name)
        /\ \A k \in (idx + 1)..Len(name) : name[k] \in UpperChars \cup DigitChars

\* C25: for every non-empty sample name s, underscores allowed, and every F of
\* GT, DP, GQ, AD, PL, VAF, MIN_DP, parse_format_column_name(s + "_" + F) is
\* (s, F); a name with no non-empty sample prefix followed by "_" and an
\* upper-case/digit suffix gives None.
C25_ParseFormatColumnName ==
    parsed.phase = "done" =>
        /\ \A sample \in FormatSamples, f \in DOMAIN format_patterns :
              parsed.name = sample \o <<"_">> \o format_patterns[f]
                 => parsed.result = SomeParsed(sample, format_patterns[f])
        /\ ~HasSampleAndSuffix(parsed.name) => parsed.result = NoneParsed

\* ------------------------------------------------- claims, lazy results
\* C26: the rows of a count-overlaps result depend only on the inputs
\* registered at its dispatch; a later registration of s1 or s2 before the
\* lazy result executes does not change them.
C26_ResultOfDispatchInputs ==
    \A k \in DOMAIN lazy.results :
        lazy.results[k].executed =>
            lazy.results[k].rows = get_stream(lazy.results[k].df1, lazy.results[k].df2,
                                              DEFAULT_COLUMN_NAMES, DEFAULT_COLUMN_NAMES)

\* ------------------------------------------------- claims, sequential dispatch
\* the tag a dispatch asked for
RequestedAlgorithm(overlap_alg) == IF overlap_alg = None THEN Coitrees ELSE overlap_alg

\* C28: in a sequential series of dispatches on one session, every overlap or
\* count-overlaps dispatch issues its query while interval_join_algorithm is
\* the tag the dispatch asked for, coitrees when it asked for none, whatever
\* earlier dispatches, nearest included, left in the session.
C28_QueryUnderRequestedAlgorithm ==
    \A t \in Threads :
        (/\ Done(t) /\ finished[t].result = "lazy"
         /\ finished[t].range_op \in {"Overlap", "CountOverlapsNaive", "Coverage"})
            => finished[t].alg_at_query = RequestedAlgorithm(finished[t].overlap_alg)
C28_Witness ==
    \E t \in Threads, u \in Threads :
        /\ Done(t) /\ finished[t].range_op = "Nearest" /\ finished[t].result = "lazy"
        /\ finished[t].id = 1
        /\ Done(u) /\ finished[u].range_op = "Overlap" /\ finished[u].result = "lazy"
        /\ finished[u].id = 2
        /\ finished[u].overlap_alg = "lapper" /\ finished[u].alg_at_query = "lapper"

\* ------------------------------------------------- claims, two-stage statistics
\* the histogram of position pos over all the quality strings, whatever batch
\* or partition they are in
ObservedHist(pos) ==
    [q \in 0..(NumSlots - 1) |->
        Cardinality({i \in DOMAIN hstage.batches :
            LET r == hstage.batches[i][1]
            IN ~r.is_null /\ Len(r.value) > pos /\ r.value[pos + 1] = q + PhredOffset})]
ObservedPositions == {pos \in 0..(MaxPos - 1) : HistTotal(ObservedHist(pos)) >= 1}

\* C29: for a fixed multiset of quality strings the per-position statistics of
\* the histogram provider followed by the statistics stage are the same for
\* every target_partitions and every assignment of batches to partitions, with
\* exactly one row for every position that has at least one observation.
C29_StatsIndependentOfPartitioning ==
    hstage.phase = "done" =>
        /\ {hstage.result[k].pos : k \in DOMAIN hstage.result} = ObservedPositions
        /\ Len(hstage.result) = Cardinality(ObservedPositions)
        /\ \A k \in DOMAIN hstage.result :
              hstage.result[k].stats
                 = calculate_histogram_stats(ObservedHist(hstage.result[k].pos))
C29_Witness ==
    /\ hstage.phase = "done"
    /\ hstage.target_partitions = 2
    /\ hstage.assign = <<1, 2>>
    /\ hstage.outputs[1].rows # <<>> /\ hstage.outputs[2].rows # <<>>
    /\ Len(hstage.result) = 2
    /\ \E k \in DOMAIN hstage.result : hstage.result[k].stats.q1 # hstage.result[k].stats.q3

\* ------------------------------------------------- claims, quartile accumulator
\* the longest quality string the accumulators that were merged received
LongestRow ==
    LET lens == {Len(macc.rows[macc.how[2][i]].value) : i \in DOMAIN macc.how[2]}
    IN CHOOSE n \in lens : \A m \in lens : m <= n
\* positions 0..max_len - 1 are tracked, each with at least one observation
TrackedContiguously ==
    /\ Len(macc.merged) = LongestRow
    /\ \A p \in DOMAIN macc.merged : HistTotal(macc.merged[p]) >= 1

\* C30: after any sequence of update_batch and merge_batch calls that saw at
\* least one non-empty quality string of bytes 33..126, QuartilesAccumulator
\* tracks the positions 0..max_len - 1 contiguously, each with a total of at
\* least 1, so the `sum != 0` assertion cannot fail, and evaluate returns,
\* without failing, a struct with one entry per position.
C30_EvaluateReturnsStruct ==
    (macc.phase = "merged" /\ macc.kind = "quartiles" /\ LongestRow >= 1) =>
        /\ TrackedContiguously
        /\ macc.output \notin {"assert_panic", "index_panic"}

====
